---- MODULE Spec2Model ----
(***************************************************************************)
(* A model of ImageStegano: the LSB steganography engine                   *)
(* (utils/stego_engine.py) and the AES-GCM bundler                         *)
(* (utils/crypto_engine.py).                                               *)
(*                                                                         *)
(* Text is a sequence of code points, bytes are a sequence of 0..255, and  *)
(* the file system is a function from paths to file contents.              *)
(***************************************************************************)
EXTENDS Integers, Sequences, FiniteSets, TLC

VARIABLES
    fs,       \* the file system: path -> file content (NoFile when absent)
    pre,      \* the file system as it was when the last call started
    hidden,   \* whether StegoEngine.hide has been called on this file system
    last,     \* the last StegoEngine call: its arguments and its outcome
    hiding,   \* the hide calls under way at once, each with its position
    step,     \* how far the crypto engine has got: "idle", "encrypted", ...
    sent,     \* the encrypt call: its arguments and the bundle it returned
    tamper,   \* the one change made to the bundle on its way, if any
    wire_bundle, \* the bundle as it is now
    wire_str, \* the bundle string made from the bundle
    received, \* what parse_bundle_string made of the bundle string
    result,   \* the last decrypt call: its key and its outcome
    calls,    \* the encrypt calls so far: key, os.urandom draw, nonce used
    keys_dir, \* KeyManager.KEYS_DIR: file name -> the key record in the file
    key_call, \* the last KeyManager call: its arguments and its outcome
    session_state,  \* st.session_state of the Key Manager page: the indexes i
                    \* whose confirm_delete_i is set
    delete_clicks,  \* key file -> the Delete clicks made on that key so far
    analytics_file, \* Analytics.ANALYTICS_FILE: NoFile, or the list it holds
    logging   \* the log_operation calls: position, entry, the list loaded

stegoVars == <<fs, pre, hidden, last, hiding>>
cryptoVars == <<step, sent, tamper, wire_bundle, wire_str, received, result, calls>>
appVars == <<keys_dir, key_call, session_state, delete_clicks, analytics_file, logging>>
vars == <<fs, pre, hidden, last, hiding, step, sent, tamper, wire_bundle, wire_str, received, result,
          calls, keys_dir, key_call, session_state, delete_clicks, analytics_file, logging>>

MaxTamperSpan == 3

\* most encrypt calls made one after another
MaxCalls == 3

(***************************************************************************)
(* Bounds of the model.                                                    *)
(***************************************************************************)
\* longest payload that is enumerated character by character
MaxShort == 1

(***************************************************************************)
(* Program constants of StegoEngine.                                       *)
(***************************************************************************)
SUPPORTED_FORMATS == {"PNG", "BMP", "TIFF"}
MIN_DIMENSION == 100
METADATA_OVERHEAD == 200
MIN_CAPACITY == 1000

(***************************************************************************)
(* Generic helpers.                                                        *)
(***************************************************************************)
Max(a, b) == IF a >= b THEN a ELSE b

\* 2^n for n in 0..16
Pow2(n) == <<1, 2, 4, 8, 16, 32, 64, 128, 256, 512, 1024, 2048, 4096, 8192,
             16384, 32768, 65536>>[n + 1]

\* bit i (0 = least significant) of the natural number v
BitOf(v, i) == (v \div Pow2(i)) % 2

\* number of binary digits of v (1 for v = 0), as Python's bin(v)[2:]
RECURSIVE BinLen(_)
BinLen(v) == IF v < 2 THEN 1 ELSE 1 + BinLen(v \div 2)

\* Python's str(n) for a natural number, as code points
RECURSIVE Str(_)
Str(n) == IF n < 10 THEN <<48 + n>> ELSE Append(Str(n \div 10), 48 + (n % 10))

(***************************************************************************)
(* Paths and files.                                                        *)
(***************************************************************************)
Paths == {[stem |-> "a", suffix |-> "bmp"],
          [stem |-> "a", suffix |-> "png"],
          [stem |-> "b", suffix |-> "png"]}

\* pathlib.Path(p).with_suffix('.png')
WithSuffixPng(p) == [p EXCEPT !.suffix = "png"]

NoFile == [kind |-> "none"]
Junk == [kind |-> "junk"]

\* An image file.  base names the picture it was made from, ov holds the
\* values of the first Len(ov) colour slots (R, G, B of each pixel in
\* row-major order, alpha left out) where they have been rewritten, and
\* enc tells whether the bytes are those of the original encoder
\* ("source": its own compression and ancillary chunks) or of PIL's
\* save(format='PNG', optimize=True) of bare pixel data ("pil").
ImageFile(fmt, mode, w, h, base, enc) ==
    [kind |-> "image", fmt |-> fmt, mode |-> mode, w |-> w, h |-> h,
     base |-> base, ov |-> <<>>, enc |-> enc]

Exists(fsv, p) == fsv[p].kind # "none"
IsImage(f) == f.kind = "image"

\* value of colour slot k (1-based) of the original picture
BaseValue(base, k) == IF base = "dark" THEN 0 ELSE 255

\* value of colour slot k of an image
SlotValue(img, k) == IF k <= Len(img.ov) THEN img.ov[k] ELSE BaseValue(img.base, k)

NSlots(img) == 3 * img.w * img.h

(***************************************************************************)
(* StegoEngine.calculate_capacity and StegoEngine.validate_image.          *)
(***************************************************************************)
\* img.convert('RGB') unless the mode is RGB or RGBA already
ConvertedMode(mode) == IF mode \in {"RGB", "RGBA"} THEN mode ELSE "RGB"

\* calculate_capacity counting three channels whatever the mode
CapacityThreeChannels(img) ==
    ((img.w * img.h * 3) \div 8) - METADATA_OVERHEAD

\* calculate_capacity on a file that Image.open accepts
calculate_capacity(img) ==
    LET mode == ConvertedMode(img.mode)
        channels == IF mode = "RGB" THEN 3 ELSE 4
        total_bits == img.w * img.h * channels
    IN  (total_bits \div 8) - METADATA_OVERHEAD

\* the format check of validate_image
FormatSupported(format_name) == format_name \in SUPPORTED_FORMATS

\* the dimension check of validate_image, testing the width alone
TooSmallWidthOnly(width, height) == width < MIN_DIMENSION

\* the dimension check of validate_image
TooSmall(width, height) == width < MIN_DIMENSION \/ height < MIN_DIMENSION

\* the stats mapping without its format field
BaseStatsNoFormat(img) ==
    [width |-> img.w, height |-> img.h, mode |-> img.mode, pixels |-> img.w * img.h]

\* the stats mapping validate_image builds before the format check
BaseStats(img) ==
    [width |-> img.w, height |-> img.h, format |-> img.fmt, mode |-> img.mode,
     pixels |-> img.w * img.h]

\* a stats mapping is a function from field names to values; this adds one
WithField(stats, name, value) ==
    [k \in DOMAIN stats \cup {name} |-> IF k = name THEN value ELSE stats[k]]

EmptyStats == [k \in {} |-> 0]

\* validate_image(path) -> [ok, why, stats]
validate_image(fsv, path) ==
    IF ~Exists(fsv, path)
    THEN [ok |-> FALSE, why |-> "not_found", stats |-> EmptyStats]
    ELSE IF ~IsImage(fsv[path])
    THEN [ok |-> FALSE, why |-> "invalid_image", stats |-> EmptyStats]
    ELSE LET img == fsv[path]
             stats == BaseStats(img)
         IN  IF ~FormatSupported(img.fmt)
             THEN [ok |-> FALSE, why |-> "unsupported_format", stats |-> stats]
             ELSE IF TooSmall(img.w, img.h)
             THEN [ok |-> FALSE, why |-> "too_small", stats |-> stats]
             ELSE LET capacity == calculate_capacity(img)
                      full == WithField(stats, "capacity_bytes", capacity)
                  IN  IF capacity < MIN_CAPACITY
                      THEN [ok |-> FALSE, why |-> "insufficient_capacity",
                            stats |-> full]
                      ELSE [ok |-> TRUE, why |-> "valid", stats |-> full]

(***************************************************************************)
(* StegoEngine.prepare_image.                                              *)
(***************************************************************************)
\* the file prepare_image writes: bare pixel data of the (converted)
\* image, saved as an optimized PNG
PreparedFile(img) ==
    [img EXCEPT !.fmt = "PNG", !.mode = ConvertedMode(img.mode), !.enc = "pil"]

\* prepare_image(image_path) with output_path = None: the path it returns
PreparedPath(image_path) == WithSuffixPng(image_path)

\* prepare_image(image_path): the file system after it
prepare_image(fsv, image_path) ==
    [fsv EXCEPT ![PreparedPath(image_path)] = PreparedFile(fsv[image_path])]

(***************************************************************************)
(* The embedding: stegano's lsb.hide and lsb.reveal as StegoEngine calls   *)
(* them (8 bits per character, three colour slots per pixel, the message   *)
(* prefixed by its length and a colon).                                    *)
(***************************************************************************)
COLON == 58

\* the binary digits of one character, left-padded to 8 (never cut)
CharWidth(c) == Max(8, BinLen(c))
CharBits(c) == [i \in 1..CharWidth(c) |-> BitOf(c, CharWidth(c) - i)]

RECURSIVE ConcatBits(_)
ConcatBits(chars) ==
    IF chars = <<>> THEN <<>>
    ELSE CharBits(Head(chars)) \o ConcatBits(Tail(chars))

\* the bits of a text: the concatenation of CharBits of its characters
\* (computed by position when every character takes exactly 8 bits)
TextBits(text) ==
    IF \A j \in 1..Len(text) : text[j] < 256
    THEN [k \in 1..(8 * Len(text)) |->
             BitOf(text[((k - 1) \div 8) + 1], 7 - ((k - 1) % 8))]
    ELSE ConcatBits(text)

\* the bit stream lsb.hide embeds for a message
MessageBits(message) ==
    LET bits == TextBits(Str(Len(message)) \o <<COLON>> \o message)
        padding == (3 - (Len(bits) % 3)) % 3
    IN  bits \o [i \in 1..padding |-> 0]

\* setlsb writing the bit in place of the whole component
setlsbWhole(component, bit) == bit

\* setlsb(component, bit)
setlsb(component, bit) == (component - (component % 2)) + bit

\* lsb.hide(prepared, message): [ok, img], img being the encoded image
lsb_hide(img, message) ==
    IF Len(message) = 0 THEN [ok |-> FALSE, img |-> img]
    ELSE LET bits == MessageBits(message)
         IN  IF Len(bits) > img.w * img.h * 3 THEN [ok |-> FALSE, img |-> img]
             ELSE [ok |-> TRUE,
                   img |-> [img EXCEPT !.ov =
                       [k \in 1..Max(Len(bits), Len(img.ov)) |->
                           IF k <= Len(bits)
                           THEN setlsb(SlotValue(img, k), bits[k])
                           ELSE img.ov[k]]]]

\* least significant bit of colour slot k
SlotBit(img, k) == SlotValue(img, k) % 2

\* the j-th 8-bit character lsb.reveal assembles from the colour slots
RevealedChar(img, j) ==
    LET b(i) == SlotBit(img, 8 * (j - 1) + i)
    IN  128 * b(1) + 64 * b(2) + 32 * b(3) + 16 * b(4)
        + 8 * b(5) + 4 * b(6) + 2 * b(7) + b(8)

IsDigit(c) == c >= 48 /\ c <= 57

RECURSIVE DigitsValue(_)
DigitsValue(ds) ==
    IF ds = <<>> THEN 0
    ELSE 10 * DigitsValue(SubSeq(ds, 1, Len(ds) - 1)) + (ds[Len(ds)] - 48)

\* a length prefix with more significant digits than this announces more
\* characters than any image of the model holds
MaxPrefixDigits == 7
\* the key files the directory may hold before save_key is called no more
MaxKeys == 2

\* number of leading '0' characters of a digit string
LeadingZeros(ds) ==
    Cardinality({i \in 1..Len(ds) : \A j \in 1..i : ds[j] = 48})

\* the character every 8 colour slots of the untouched picture spell
BaseChar(base) == 255 * (BaseValue(base, 1) % 2)

\* lsb.reveal(path): [found, text].  The first colon among the assembled
\* characters ends the length prefix; the text is returned at the end of
\* the pixel where the announced number of characters is complete.
\* (Past the rewritten slots every character is BaseChar, which is no
\*  colon, so the search for the colon ends one character after them.)
lsb_reveal(img) ==
    LET nchars == NSlots(img) \div 8
        nscan == IF BaseChar(img.base) = COLON \/ (Len(img.ov) \div 8) + 1 > nchars
                 THEN nchars ELSE (Len(img.ov) \div 8) + 1
        none == [found |-> FALSE, text |-> <<>>]
    IN  IF ~(\E j \in 1..nscan : RevealedChar(img, j) = COLON) THEN none
        ELSE LET colon == CHOOSE j \in 1..nscan :
                              /\ RevealedChar(img, j) = COLON
                              /\ \A i \in 1..(j - 1) : RevealedChar(img, i) # COLON
                 prefix == [i \in 1..(colon - 1) |-> RevealedChar(img, i)]
             IN  IF prefix = <<>>
                    \/ (\E i \in 1..Len(prefix) : ~IsDigit(prefix[i]))
                    \/ Len(prefix) - LeadingZeros(prefix) > MaxPrefixDigits
                 THEN none
                 ELSE LET z == LeadingZeros(prefix)
                          limit == DigitsValue(SubSeq(prefix, z + 1, Len(prefix)))
                          skip == Len(Str(limit)) + 1
                          total == limit + skip
                      IN  IF total < colon \/ total > nchars THEN none
                          ELSE [found |-> TRUE,
                                text |-> [i \in 1..limit |->
                                             RevealedChar(img, skip + i)]]

(***************************************************************************)
(* StegoEngine.hide and StegoEngine.reveal.                                *)
(***************************************************************************)
\* bytes one character takes in UTF-8
Utf8Len(c) == IF c < 128 THEN 1 ELSE IF c < 2048 THEN 2 ELSE IF c < 65536 THEN 3 ELSE 4

\* len(secret_data.encode('utf-8')): the sum of Utf8Len over the characters
Utf8Size(text) ==
    LET taking(n) == Cardinality({j \in 1..Len(text) : Utf8Len(text[j]) >= n})
    IN  taking(1) + taking(2) + taking(3) + taking(4)

\* the file stego_img.save(output_path, format='PNG', optimize=True) writes
StegoFile(img) == [img EXCEPT !.fmt = "PNG", !.enc = "pil"]

\* the clean-up of the prepared file after the embedding
CleanUp(fsv, cover_path, prepared_path) ==
    IF prepared_path # cover_path /\ Exists(fsv, prepared_path)
    THEN [fsv EXCEPT ![prepared_path] = NoFile]
    ELSE fsv

\* hide(cover_path, secret_data, output_path): [ok, err, fs, capacity]
hide(fsv, cover_path, secret_data, output_path) ==
    LET v == validate_image(fsv, cover_path)
    IN  IF ~v.ok
        THEN [ok |-> FALSE, err |-> "invalid_cover", fs |-> fsv, capacity |-> 0]
        ELSE
        LET capacity == v.stats["capacity_bytes"]
            data_size == Utf8Size(secret_data)
        IN  IF data_size > capacity
            THEN [ok |-> FALSE, err |-> "too_large", fs |-> fsv,
                  capacity |-> capacity]
            ELSE
            LET prepared_path == PreparedPath(cover_path)
                fs1 == prepare_image(fsv, cover_path)
                emb == lsb_hide(fs1[prepared_path], secret_data)
            IN  IF ~emb.ok
                THEN [ok |-> FALSE, err |-> "embed_error", fs |-> fs1,
                      capacity |-> capacity]
                ELSE
                LET fs2 == [fs1 EXCEPT ![output_path] = StegoFile(emb.img)]
                    fs3 == CleanUp(fs2, cover_path, prepared_path)
                IN  IF ~Exists(fs3, output_path)
                    THEN [ok |-> FALSE, err |-> "output_missing", fs |-> fs3,
                          capacity |-> capacity]
                    ELSE [ok |-> TRUE, err |-> "none", fs |-> fs3,
                          capacity |-> capacity]

\* reveal(stego_path): [ok, err, text]
reveal(fsv, stego_path) ==
    IF ~Exists(fsv, stego_path)
    THEN [ok |-> FALSE, err |-> "not_found", text |-> <<>>]
    ELSE IF ~IsImage(fsv[stego_path]) \/ fsv[stego_path].mode \notin {"RGB", "RGBA"}
    THEN [ok |-> FALSE, err |-> "extraction_failed", text |-> <<>>]
    ELSE LET r == lsb_reveal(fsv[stego_path])
         IN  IF ~r.found \/ Len(r.text) = 0
             THEN [ok |-> FALSE, err |-> "extraction_failed", text |-> <<>>]
             ELSE [ok |-> TRUE, err |-> "none", text |-> r.text]

(***************************************************************************)
(* The crypto engine.                                                      *)
(***************************************************************************)
\* ---------------------------------------------------------------------
\* Text and bytes of the crypto engine (src/utils/crypto_engine.py).
\* A str is a sequence of code points, a bytes object a sequence of
\* values 0..255.
\* ---------------------------------------------------------------------
QUOTE == 34
BACKSLASH == 92

HexDigit(v) == IF v < 10 THEN 48 + v ELSE 87 + v

HexValue(c) ==
    IF c >= 48 /\ c <= 57 THEN c - 48
    ELSE IF c >= 97 /\ c <= 102 THEN c - 87
    ELSE IF c >= 65 /\ c <= 70 THEN c - 55
    ELSE -1

\* str.encode('utf-8') of a text without surrogates: one to four bytes for
\* each character.
Utf8Encode(text) ==
    LET width(c) == IF c < 128 THEN 1 ELSE IF c < 2048 THEN 2 ELSE IF c < 65536 THEN 3 ELSE 4
        extra(n) == Cardinality({j \in 1..n : text[j] >= 128})
                    + Cardinality({j \in 1..n : text[j] >= 2048})
                    + Cardinality({j \in 1..n : text[j] >= 65536})
        start(i) == i + extra(i - 1)
        owner(k) == CHOOSE i \in 1..Len(text) : start(i) <= k /\ k < start(i) + width(text[i])
        unit(c, w, o) ==
            IF w = 1 THEN c
            ELSE IF o = 0 THEN <<0, 192, 224, 240>>[w] + (c \div <<1, 64, 4096, 262144>>[w])
            ELSE 128 + ((c \div <<1, 64, 4096, 262144>>[w - o]) % 64)
    IN  IF \A j \in 1..Len(text) : text[j] < 128 THEN text
        ELSE [k \in 1..(Len(text) + extra(Len(text))) |->
                unit(text[owner(k)], width(text[owner(k)]), k - start(owner(k)))]

\* bytes.decode('utf-8'): the shortest form of each character in one to
\* four bytes, no surrogates, nothing above U+10FFFF; anything else is a
\* UnicodeDecodeError.
RECURSIVE Utf8Scan(_, _, _)
Utf8Scan(bytes, i, out) ==
    LET b(k) == IF i + k <= Len(bytes) THEN bytes[i + k] ELSE -1
        cont(k) == b(k) >= 128 /\ b(k) <= 191
    IN  IF i > Len(bytes) THEN [ok |-> TRUE, text |-> out]
        ELSE IF b(0) < 128 THEN Utf8Scan(bytes, i + 1, Append(out, b(0)))
        ELSE IF b(0) >= 194 /\ b(0) <= 223 /\ cont(1)
        THEN Utf8Scan(bytes, i + 2, Append(out, (b(0) - 192) * 64 + (b(1) - 128)))
        ELSE IF /\ b(0) >= 224 /\ b(0) <= 239 /\ cont(1) /\ cont(2)
                /\ b(0) = 224 => b(1) >= 160
                /\ b(0) = 237 => b(1) <= 159
        THEN Utf8Scan(bytes, i + 3,
                      Append(out, (b(0) - 224) * 4096 + (b(1) - 128) * 64 + (b(2) - 128)))
        ELSE IF /\ b(0) >= 240 /\ b(0) <= 244 /\ cont(1) /\ cont(2) /\ cont(3)
                /\ b(0) = 240 => b(1) >= 144
                /\ b(0) = 244 => b(1) <= 143
        THEN Utf8Scan(bytes, i + 4,
                      Append(out, (b(0) - 240) * 262144 + (b(1) - 128) * 4096
                                  + (b(2) - 128) * 64 + (b(3) - 128)))
        ELSE [ok |-> FALSE, text |-> <<>>]

Utf8Decode(bytes) ==
    IF \A i \in 1..Len(bytes) : bytes[i] < 128
    THEN [ok |-> TRUE, text |-> bytes]
    ELSE Utf8Scan(bytes, 1, <<>>)

\* ---------------------------------------------------------------------
\* base64.b64encode / base64.b64decode (standard alphabet, validate=False).
\* ---------------------------------------------------------------------
B64Char(v) ==
    IF v < 26 THEN 65 + v
    ELSE IF v < 52 THEN 71 + v
    ELSE IF v < 62 THEN v - 4
    ELSE IF v = 62 THEN 43
    ELSE 47

B64Value(c) ==
    IF c >= 65 /\ c <= 90 THEN c - 65
    ELSE IF c >= 97 /\ c <= 122 THEN c - 71
    ELSE IF c >= 48 /\ c <= 57 THEN c + 4
    ELSE IF c = 43 THEN 62
    ELSE IF c = 47 THEN 63
    ELSE -1

b64encode(bytes) ==
    LET n == Len(bytes)
        byte(i) == IF i <= n THEN bytes[i] ELSE 0
        quad(g) == byte(3 * g + 1) * 65536 + byte(3 * g + 2) * 256 + byte(3 * g + 3)
        sextet(g, pos) == (quad(g) \div <<262144, 4096, 64, 1>>[pos + 1]) % 64
    IN  [k \in 1..(4 * ((n + 2) \div 3)) |->
            LET g == (k - 1) \div 4
                pos == (k - 1) % 4
            IN  IF pos >= 2 /\ 3 * g + pos > n THEN 61
                ELSE B64Char(sextet(g, pos))]

\* binascii.a2b_base64 in its default, non-strict mode: characters outside
\* the alphabet are skipped; a pad ends the scan when the data characters
\* read so far leave a quad two or three long and the pads read since the
\* last data character fill it; the bits of the last character that do not
\* fill a byte are dropped; a scan that reaches the end inside a quad is a
\* binascii.Error.

\* How many of the data characters of s, at the positions dpos, are read
\* before the scan ends; -1 when it ends inside a quad.
B64Used(s, dpos) ==
    LET n == Len(s)
        m == Len(dpos)
        gapEnd(k) == IF k < m THEN dpos[k + 1] - 1 ELSE n
        pads(k) == Cardinality({j \in (dpos[k] + 1)..gapEnd(k) : s[j] = 61})
        stops == {k \in 1..m : k % 4 >= 2 /\ (k % 4) + pads(k) >= 4}
    IN  IF stops # {} THEN CHOOSE k \in stops : \A j \in stops : k <= j
        ELSE IF m % 4 = 0 THEN m
        ELSE -1

\* The result of the scan: the bytes the first `used` data characters hold.
B64Scanned(s, dpos, used) ==
    LET value(k) == IF k <= used THEN B64Value(s[dpos[k]]) ELSE 0
        quad(g) == value(4 * g + 1) * 262144 + value(4 * g + 2) * 4096
                   + value(4 * g + 3) * 64 + value(4 * g + 4)
        nbytes == 3 * (used \div 4) + Max(0, (used % 4) - 1)
    IN  IF used < 0 THEN [ok |-> FALSE, err |-> "binascii_error", bytes |-> <<>>]
        ELSE [ok |-> TRUE, err |-> "none",
              bytes |-> [j \in 1..nbytes |->
                            (quad((j - 1) \div 3)
                               \div <<65536, 256, 1>>[((j - 1) % 3) + 1]) % 256]]

B64Scan(s, dpos) == B64Scanned(s, dpos, B64Used(s, dpos))

\* base64.b64decode(s), not validating: a str that is not ASCII is a
\* ValueError; the data characters are those of the alphabet, "=" is 61.
b64decode(s) ==
    IF \E i \in 1..Len(s) : s[i] > 127
    THEN [ok |-> FALSE, err |-> "not_ascii", bytes |-> <<>>]
    ELSE B64Scan(s, SelectSeq([i \in 1..Len(s) |-> i], LAMBDA i : B64Value(s[i]) >= 0))

\* ---------------------------------------------------------------------
\* Python dicts and the json module.
\* A dict is the sequence of its items in insertion order, <<>> the empty
\* dict; a value is a str or an int; two dicts are equal (==) when they
\* have the same items.
\* ---------------------------------------------------------------------
StrVal(text) == [type |-> "str", text |-> text, num |-> 0]
IntVal(n) == [type |-> "int", text |-> <<>>, num |-> n]
Item(key, value) == [k |-> key, v |-> value]

Has(d, key) == \E i \in 1..Len(d) : d[i].k = key
Get(d, key) == d[CHOOSE i \in 1..Len(d) : d[i].k = key].v
Items(d) == {d[i] : i \in 1..Len(d)}

\* d[key] = value
SetItem(d, key, value) ==
    IF Has(d, key)
    THEN [i \in 1..Len(d) |-> IF d[i].k = key THEN Item(key, value) ELSE d[i]]
    ELSE Append(d, Item(key, value))

\* a dict replaced by another instead of updated with it
DictReplaced(d, other) == other

\* d.update(other)
\* an update that keeps the value a key already has
DictKeepFirst(d, other) ==
    d \o SelectSeq(other, LAMBDA item : ~Has(d, item.k))

RECURSIVE DictUpdate(_, _)
DictUpdate(d, other) ==
    IF other = <<>> THEN d
    ELSE DictUpdate(SetItem(d, other[1].k, other[1].v), Tail(other))

\* a < b on str: by code point, a proper prefix first.
StrLess(a, b) ==
    \E i \in 1..(Len(b)) :
        /\ \A j \in 1..(i - 1) : j <= Len(a) /\ a[j] = b[j]
        /\ i - 1 <= Len(a)
        /\ (i > Len(a) \/ a[i] < b[i])

RECURSIVE SortedItems(_)
SortedItems(d) ==
    IF d = <<>> THEN <<>>
    ELSE LET i == CHOOSE i \in 1..Len(d) :
                     \A j \in 1..Len(d) : j = i \/ StrLess(d[i].k, d[j].k)
         IN  <<d[i]>> \o SortedItems(SubSeq(d, 1, i - 1) \o SubSeq(d, i + 1, Len(d)))

\* json.encoder.py_encode_basestring_ascii: the quote and the backslash
\* get a backslash, everything outside ' '..'~' a short escape or \uXXXX.
EscapeChar(c) ==
    IF c = QUOTE \/ c = BACKSLASH THEN <<BACKSLASH, c>>
    ELSE IF c >= 32 /\ c <= 126 THEN <<c>>
    ELSE IF c = 10 THEN <<BACKSLASH, 110>>
    ELSE IF c = 13 THEN <<BACKSLASH, 114>>
    ELSE IF c = 9 THEN <<BACKSLASH, 116>>
    ELSE IF c = 8 THEN <<BACKSLASH, 98>>
    ELSE IF c = 12 THEN <<BACKSLASH, 102>>
    ELSE <<BACKSLASH, 117, HexDigit((c \div 4096) % 16), HexDigit((c \div 256) % 16),
           HexDigit((c \div 16) % 16), HexDigit(c % 16)>>

RECURSIVE EscapeRange(_, _, _)
EscapeRange(text, lo, hi) ==
    IF lo > hi THEN <<>>
    ELSE IF lo = hi THEN EscapeChar(text[lo])
    ELSE EscapeRange(text, lo, (lo + hi) \div 2)
         \o EscapeRange(text, ((lo + hi) \div 2) + 1, hi)

\* a JSON string written without escaping
JsonStringRaw(text) == <<QUOTE>> \o text \o <<QUOTE>>

JsonString(text) ==
    <<QUOTE>>
    \o (IF \A i \in 1..Len(text) :
              text[i] >= 32 /\ text[i] <= 126 /\ text[i] # QUOTE /\ text[i] # BACKSLASH
        THEN text
        ELSE EscapeRange(text, 1, Len(text)))
    \o <<QUOTE>>

JsonValue(value) ==
    IF value.type = "str" THEN JsonString(value.text)
    ELSE IF value.num < 0 THEN <<45>> \o Str(-value.num)
    ELSE Str(value.num)

RECURSIVE JsonItems(_, _, _)
JsonItems(d, item_separator, key_separator) ==
    IF d = <<>> THEN <<>>
    ELSE JsonString(d[1].k) \o key_separator \o JsonValue(d[1].v)
         \o (IF Len(d) = 1 THEN <<>>
             ELSE item_separator \o JsonItems(Tail(d), item_separator, key_separator))

\* json.dumps(d, sort_keys=..., separators=(item_separator, key_separator))
json_dumps(d, sort_keys, item_separator, key_separator) ==
    <<123>>
    \o JsonItems(IF sort_keys THEN SortedItems(d) ELSE d, item_separator, key_separator)
    \o <<125>>

\* json.loads of a document that is one object of str and int values, as
\* json.decoder scans it: any other text is a JSONDecodeError.
At(s, i) == IF i >= 1 /\ i <= Len(s) THEN s[i] ELSE -1
JsonFail == [ok |-> FALSE, dict |-> <<>>]

RECURSIVE SkipSpace(_, _)
SkipSpace(s, i) == IF At(s, i) \in {32, 9, 10, 13} THEN SkipSpace(s, i + 1) ELSE i

\* The number of backslashes that end just before position j, counted back
\* no further than position lo.
BackslashRun(s, lo, j) ==
    IF j = lo \/ s[j - 1] # BACKSLASH THEN 0
    ELSE LET k == CHOOSE k \in (lo - 1)..(j - 1) :
                      /\ k = lo - 1 \/ s[k] # BACKSLASH
                      /\ \A t \in (k + 1)..(j - 1) : s[t] = BACKSLASH
         IN  j - 1 - k

\* The position of the quote that closes the string whose first character
\* is at position lo: the first quote an escape does not cover; 0 when
\* there is none.
ClosingQuote(s, lo) ==
    LET closes == {j \in lo..Len(s) : s[j] = QUOTE /\ BackslashRun(s, lo, j) % 2 = 0}
    IN  IF closes = {} THEN 0
        ELSE CHOOSE j \in closes : \A t \in closes : j <= t

\* The positions in lo..hi where a character or an escape starts.
TokenStarts(s, lo, hi) ==
    LET EscStart(j) == s[j] = BACKSLASH /\ BackslashRun(s, lo, j) % 2 = 0
        Covered(t) == \/ t > lo /\ EscStart(t - 1)
                      \/ \E j \in Max(lo, t - 5)..(t - 2) : EscStart(j) /\ s[j + 1] = 117
    IN  SelectSeq([t \in 1..(hi - lo + 1) |-> lo + t - 1], LAMBDA t : ~Covered(t))

\* A string, or the failure to read one: [ok, value, next].
StringFail(i) == [ok |-> FALSE, value |-> StrVal(<<>>), next |-> i]

\* The text of the string that ends at hi, given where its characters and
\* escapes start: \" \\ \/ \b \f \n \r \t and \uXXXX are escapes, a control
\* character outside an escape is an error. A \uXXXX escape is read as one
\* character: no text here holds a surrogate pair.
Unescape(s, hi, starts) ==
    LET TokenOk(j) ==
            IF s[j] # BACKSLASH THEN s[j] >= 32
            ELSE IF s[j + 1] = 117
                 THEN j + 5 <= hi /\ \A t \in (j + 2)..(j + 5) : HexValue(s[t]) >= 0
                 ELSE s[j + 1] \in {QUOTE, BACKSLASH, 47, 98, 102, 110, 114, 116}
        Unescaped(e) ==
            IF e = 98 THEN 8 ELSE IF e = 102 THEN 12 ELSE IF e = 110 THEN 10
            ELSE IF e = 114 THEN 13 ELSE IF e = 116 THEN 9 ELSE e
        TokenValue(j) ==
            IF s[j] # BACKSLASH THEN s[j]
            ELSE IF s[j + 1] = 117
                 THEN HexValue(s[j + 2]) * 4096 + HexValue(s[j + 3]) * 256
                      + HexValue(s[j + 4]) * 16 + HexValue(s[j + 5])
                 ELSE Unescaped(s[j + 1])
    IN  IF \A t \in 1..Len(starts) : TokenOk(starts[t])
        THEN [ok |-> TRUE,
              value |-> StrVal([t \in 1..Len(starts) |-> TokenValue(starts[t])]),
              next |-> hi + 2]
        ELSE StringFail(hi)

StringBody(s, lo, close) ==
    IF close = 0 THEN StringFail(lo)
    ELSE IF \A j \in lo..(close - 1) : s[j] # BACKSLASH
    THEN IF \A j \in lo..(close - 1) : s[j] >= 32
         THEN [ok |-> TRUE, value |-> StrVal(SubSeq(s, lo, close - 1)), next |-> close + 1]
         ELSE StringFail(lo)
    ELSE Unescape(s, close - 1, TokenStarts(s, lo, close - 1))

\* A string that opens at position i.
ParseString(s, i) ==
    IF At(s, i) # QUOTE THEN StringFail(i)
    ELSE StringBody(s, i + 1, ClosingQuote(s, i + 1))

RECURSIVE DigitRun(_, _)
DigitRun(s, i) == IF IsDigit(At(s, i)) THEN DigitRun(s, i + 1) ELSE i

\* The int whose digits end before position stop: [ok, value, next].
IntFrom(s, i, stop) ==
    LET neg == At(s, i) = 45
        first == IF neg THEN i + 1 ELSE i
    IN  IF stop = first \/ At(s, stop) \in {46, 69, 101}
        THEN [ok |-> FALSE, value |-> IntVal(0), next |-> i]
        ELSE [ok |-> TRUE,
              value |-> IntVal(IF neg THEN -DigitsValue(SubSeq(s, first, stop - 1))
                               ELSE DigitsValue(SubSeq(s, first, stop - 1))),
              next |-> stop]

\* An int that starts at position i: a sign, then 0 or a run of digits.
ParseInt(s, i) ==
    LET first == IF At(s, i) = 45 THEN i + 1 ELSE i
    IN  IntFrom(s, i, IF At(s, first) = 48 THEN first + 1 ELSE DigitRun(s, first))

\* A value that starts at position i.
ParseValue(s, i) ==
    IF At(s, i) = QUOTE THEN ParseString(s, i) ELSE ParseInt(s, i)

\* The members of an object from position i, a key expected there.
RECURSIVE ParseMembers(_, _, _)

MemberEnd(s, acc, after) ==
    IF At(s, after) = 44 THEN ParseMembers(s, SkipSpace(s, after + 1), acc)
    ELSE IF At(s, after) = 125 /\ SkipSpace(s, after + 1) = Len(s) + 1
    THEN [ok |-> TRUE, dict |-> acc]
    ELSE JsonFail

MemberValue(s, acc, key, value) ==
    IF ~value.ok THEN JsonFail
    ELSE MemberEnd(s, SetItem(acc, key, value.value), SkipSpace(s, value.next))

MemberKey(s, acc, key) ==
    IF ~key.ok \/ At(s, SkipSpace(s, key.next)) # 58 THEN JsonFail
    ELSE MemberValue(s, acc, key.value.text,
                     ParseValue(s, SkipSpace(s, SkipSpace(s, key.next) + 1)))

ParseMembers(s, i, acc) == MemberKey(s, acc, ParseString(s, i))

ObjectFrom(s, open) ==
    IF At(s, open) # 123 THEN JsonFail
    ELSE IF At(s, SkipSpace(s, open + 1)) = 125
    THEN IF SkipSpace(s, SkipSpace(s, open + 1) + 1) = Len(s) + 1
         THEN [ok |-> TRUE, dict |-> <<>>] ELSE JsonFail
    ELSE ParseMembers(s, SkipSpace(s, open + 1), <<>>)

json_loads(s) == ObjectFrom(s, SkipSpace(s, 1))

\* json.loads(s) returns a str or an int, not a dict
ScalarJson(s) ==
    LET value == ParseValue(s, SkipSpace(s, 1))
    IN  value.ok /\ SkipSpace(s, value.next) = Len(s) + 1

\* ---------------------------------------------------------------------
\* CryptoEngine (src/utils/crypto_engine.py).
\* ---------------------------------------------------------------------
KEY_SIZE == 32
NONCE_SIZE == 12
TAG_SIZE == 16

\* "v2.0"
VERSION == <<118, 50, 46, 48>>
\* The names of the fields of a bundle and of its metadata, as code points.
Name ==
    [version |-> <<118, 101, 114, 115, 105, 111, 110>>,
     timestamp |-> <<116, 105, 109, 101, 115, 116, 97, 109, 112>>,
     key_hash |-> <<107, 101, 121, 95, 104, 97, 115, 104>>,
     size |-> <<115, 105, 122, 101>>,
     metadata |-> <<109, 101, 116, 97, 100, 97, 116, 97>>,
     nonce |-> <<110, 111, 110, 99, 101>>,
     ciphertext |-> <<99, 105, 112, 104, 101, 114, 116, 101, 120, 116>>,
     tag |-> <<116, 97, 103>>,
     note |-> <<110, 111, 116, 101>>]

\* AESGCM and SHA-256 of the cryptography and hashlib libraries, reduced to
\* what the engine relies on: a cipher whose output is as long as its input
\* and is undone by the same key and nonce, a 16-byte tag over key, nonce,
\* associated data and ciphertext, and a digest of the key. The
\* digest is a weighted sum modulo 65521.
RECURSIVE Digest(_, _, _)
Digest(bytes, lo, hi) ==
    IF lo > hi THEN 0
    ELSE IF lo = hi THEN (((lo * lo * 7 + lo * 3 + 1) % 65521) * (bytes[lo] + 1)) % 65521
    ELSE (Digest(bytes, lo, (lo + hi) \div 2)
          + Digest(bytes, ((lo + hi) \div 2) + 1, hi)) % 65521

KeyStream(key, nonce, i) ==
    (key[((i - 1) % Len(key)) + 1] * 7 + nonce[((i - 1) % Len(nonce)) + 1] * 13 + i * 31) % 256

TagOf(h) ==
    [j \in 1..TAG_SIZE |->
        IF j = 1 THEN h % 256
        ELSE IF j = 2 THEN h \div 256
        ELSE ((h + j) * (2 * j + 1)) % 256]

AesGcmTag(key, nonce, ct, aad) ==
    LET all == key \o nonce \o <<Len(aad) % 256, Len(aad) \div 256>> \o aad \o ct
    IN  TagOf(Digest(all, 1, Len(all)))

\* a cipher that fills its output up to whole blocks of 16 bytes
AesGcmEncryptPadded(key, nonce, data, aad) ==
    LET ct == [i \in 1..(16 * ((Len(data) \div 16) + 1)) |->
                  ((IF i <= Len(data) THEN data[i] ELSE 0) + KeyStream(key, nonce, i)) % 256]
    IN  ct \o AesGcmTag(key, nonce, ct, aad)

\* AESGCM(key).encrypt(nonce, data, aad): the ciphertext with the tag after it.
AesGcmEncrypt(key, nonce, data, aad) ==
    LET ct == [i \in 1..Len(data) |-> (data[i] + KeyStream(key, nonce, i)) % 256]
    IN  ct \o AesGcmTag(key, nonce, ct, aad)

\* a decryption that does not verify the tag
AesGcmDecryptUnverified(key, nonce, data, aad) ==
    [err |-> "none",
     plaintext |-> [i \in 1..(Len(data) - TAG_SIZE) |->
                       (data[i] + 256 - KeyStream(key, nonce, i)) % 256]]

\* AESGCM(key).decrypt(nonce, data, aad): [err, plaintext]; a nonce outside
\* 8..128 bytes is a ValueError, data shorter than a tag or a tag that does
\* not verify is InvalidTag.
AesGcmDecrypt(key, nonce, data, aad) ==
    LET n == Len(data) - TAG_SIZE
        ct == SubSeq(data, 1, n)
        tag == SubSeq(data, n + 1, Len(data))
    IN  IF Len(nonce) < 8 \/ Len(nonce) > 128
        THEN [err |-> "nonce_length", plaintext |-> <<>>]
        ELSE IF n < 0 THEN [err |-> "InvalidTag", plaintext |-> <<>>]
        ELSE IF tag # AesGcmTag(key, nonce, ct, aad)
        THEN [err |-> "InvalidTag", plaintext |-> <<>>]
        ELSE [err |-> "none",
              plaintext |-> [i \in 1..n |-> (ct[i] + 256 - KeyStream(key, nonce, i)) % 256]]

\* hashlib.sha256(key).hexdigest()[:16]
HexOf(h) ==
    [j \in 1..16 |-> HexDigit(((h + j * j) \div <<1, 16, 256, 4096>>[(j % 4) + 1]) % 16)]

KeyHash(key) == HexOf(Digest(key, 1, Len(key)))

\* a constructor that cuts a longer key down to KEY_SIZE bytes
CryptoEngineTruncating(key) ==
    [ok |-> Len(key) >= KEY_SIZE,
     key |-> IF Len(key) >= KEY_SIZE THEN SubSeq(key, 1, KEY_SIZE) ELSE key,
     key_hash |-> KeyHash(IF Len(key) >= KEY_SIZE THEN SubSeq(key, 1, KEY_SIZE) ELSE key)]

\* CryptoEngine(key): ok tells whether the constructor returned, or raised
\* "Key must be 32 bytes"
CryptoEngine(key) ==
    [ok |-> Len(key) = KEY_SIZE, key |-> key, key_hash |-> KeyHash(key)]

\* The fields encrypt writes into the metadata, in the order of its update.
GeneratedFields(self, plaintext, timestamp) ==
    <<Item(Name.version, StrVal(VERSION)),
      Item(Name.timestamp, StrVal(timestamp)),
      Item(Name.key_hash, StrVal(self.key_hash)),
      Item(Name.size, IntVal(Len(plaintext)))>>

\* The bundle encrypt returns and, with it, the caller's metadata dict as
\* the call leaves it: `metadata or {}` is the caller's own dict unless that
\* dict is empty or None.
Bundled(nonce, aad, ciphertext, caller_metadata) ==
    [bundle |-> <<Item(Name.version, StrVal(VERSION)),
                  Item(Name.metadata, StrVal(b64encode(aad))),
                  Item(Name.nonce, StrVal(b64encode(nonce))),
                  Item(Name.ciphertext,
                       StrVal(b64encode(SubSeq(ciphertext, 1, Len(ciphertext) - TAG_SIZE)))),
                  Item(Name.tag,
                       StrVal(b64encode(SubSeq(ciphertext, Len(ciphertext) - TAG_SIZE + 1,
                                               Len(ciphertext)))))>>,
     caller_metadata |-> caller_metadata]

Sealed(self, plaintext, nonce, aad, caller_metadata) ==
    Bundled(nonce, aad, AesGcmEncrypt(self.key, nonce, plaintext, aad), caller_metadata)

\* encrypt taking its nonce from the length of the plaintext
encryptNonceFromSize(self, plaintext, metadata, nonce, timestamp) ==
    LET meta == DictUpdate(metadata, GeneratedFields(self, plaintext, timestamp))
    IN  Sealed(self, plaintext, [i \in 1..NONCE_SIZE |-> Len(plaintext)],
               Utf8Encode(json_dumps(meta, TRUE, <<44, 32>>, <<58, 32>>)),
               IF metadata = <<>> THEN metadata ELSE meta)

\* encrypt(plaintext, metadata) with the nonce os.urandom returned and the
\* timestamp the clock gave.
encrypt(self, plaintext, metadata, nonce, timestamp) ==
    LET meta == DictUpdate(metadata, GeneratedFields(self, plaintext, timestamp))
    IN  Sealed(self, plaintext, nonce,
               Utf8Encode(json_dumps(meta, TRUE, <<44, 32>>, <<58, 32>>)),
               IF metadata = <<>> THEN metadata ELSE meta)

\* A call of decrypt that raised.
Raised(err) == [ok |-> FALSE, err |-> err, plaintext |-> <<>>, metadata |-> <<>>]

\* base64.b64decode(bundle[name]): [err, bytes]
Decoded(raw) == [err |-> IF raw.ok THEN "none" ELSE "decode_error", bytes |-> raw.bytes]

DecodedField(bundle, name) ==
    IF ~Has(bundle, name) THEN [err |-> "KeyError", bytes |-> <<>>]
    ELSE IF Get(bundle, name).type # "str" THEN [err |-> "TypeError", bytes |-> <<>>]
    ELSE Decoded(b64decode(Get(bundle, name).text))

\* The key check of decrypt on the metadata it parsed.
KeyChecked(self, plaintext, metadata) ==
    IF ~metadata.ok THEN Raised("metadata_error")
    ELSE IF ~Has(metadata.dict, Name.key_hash)
            \/ Get(metadata.dict, Name.key_hash) # StrVal(self.key_hash)
    THEN Raised("key_mismatch")
    ELSE [ok |-> TRUE, err |-> "none", plaintext |-> plaintext,
          metadata |-> metadata.dict]

\* metadata.get on a str or an int is an AttributeError
MetadataText(self, plaintext, text) ==
    IF ~text.ok THEN Raised("metadata_error")
    ELSE IF ScalarJson(text.text) THEN Raised("AttributeError")
    ELSE KeyChecked(self, plaintext, json_loads(text.text))

\* a try block that checks the key_hash of the metadata before the tag
OpenedKeyFirst(self, aad, opened) ==
    IF opened.err \in {"none", "InvalidTag"}
       /\ ~MetadataText(self, <<>>, Utf8Decode(aad)).ok
    THEN MetadataText(self, <<>>, Utf8Decode(aad))
    ELSE IF opened.err = "InvalidTag" THEN Raised("authentication_failed")
    ELSE IF opened.err # "none" THEN Raised(opened.err)
    ELSE MetadataText(self, opened.plaintext, Utf8Decode(aad))

\* The try block of decrypt: InvalidTag becomes the authentication error.
Opened(self, aad, opened) ==
    IF opened.err = "InvalidTag" THEN Raised("authentication_failed")
    ELSE IF opened.err # "none" THEN Raised(opened.err)
    ELSE MetadataText(self, opened.plaintext, Utf8Decode(aad))

DecryptDecoded(self, nonce, ct, tag, aad) ==
    IF nonce.err # "none" THEN Raised(nonce.err)
    ELSE IF ct.err # "none" THEN Raised(ct.err)
    ELSE IF tag.err # "none" THEN Raised(tag.err)
    ELSE IF aad.err # "none" THEN Raised(aad.err)
    ELSE Opened(self, aad.bytes,
                AesGcmDecrypt(self.key, nonce.bytes, ct.bytes \o tag.bytes, aad.bytes))

\* decrypt(bundle)
decrypt(self, bundle) ==
    DecryptDecoded(self, DecodedField(bundle, Name.nonce), DecodedField(bundle, Name.ciphertext),
                   DecodedField(bundle, Name.tag), DecodedField(bundle, Name.metadata))

\* create_bundle_string(bundle)
create_bundle_string(bundle) ==
    b64encode(Utf8Encode(json_dumps(bundle, FALSE, <<44>>, <<58>>)))

\* what json.loads returned: a dict, or a str or an int (is_dict FALSE)
ParseLoaded(loaded, scalar) ==
    [ok |-> loaded.ok \/ scalar,
     err |-> IF loaded.ok \/ scalar THEN "none" ELSE "json_error",
     bundle |-> loaded.dict, is_dict |-> loaded.ok]

ParseText(json_str) ==
    IF ~json_str.ok
    THEN [ok |-> FALSE, err |-> "unicode_error", bundle |-> <<>>, is_dict |-> FALSE]
    ELSE ParseLoaded(json_loads(json_str.text), ScalarJson(json_str.text))

ParseRaw(raw) ==
    IF ~raw.ok
    THEN [ok |-> FALSE, err |-> "decode_error", bundle |-> <<>>, is_dict |-> FALSE]
    ELSE ParseText(Utf8Decode(raw.bytes))

\* parse_bundle_string(bundle_str): [ok, err, bundle, is_dict]
parse_bundle_string(bundle_str) == ParseRaw(b64decode(bundle_str))

\* bundle['nonce'] on a str or an int is a TypeError
QuickDecrypted(crypto, parsed) ==
    IF ~crypto.ok THEN Raised("key_size")
    ELSE IF ~parsed.ok THEN Raised(parsed.err)
    ELSE IF ~parsed.is_dict THEN Raised("TypeError")
    ELSE decrypt(crypto, parsed.bundle)

\* quick_decrypt(key, bundle_str)
quick_decrypt(key, bundle_str) ==
    QuickDecrypted(CryptoEngine(key), parse_bundle_string(bundle_str))

\* The crypto engine before any call.
NoEncrypt ==
    [key |-> <<>>, plaintext |-> <<>>, metadata |-> <<>>, nonce |-> <<>>,
     timestamp |-> <<>>, bundle |-> <<>>, caller_metadata |-> <<>>]
NoTamper == [kind |-> "none", field |-> <<>>, pos |-> 0, bit |-> 0]
NoParse == [ok |-> FALSE, err |-> "none", bundle |-> <<>>, is_dict |-> FALSE]
NoDecrypt == [key |-> <<>>, ok |-> FALSE, err |-> "none", plaintext |-> <<>>,
              metadata |-> <<>>]

CryptoIdle ==
    /\ step = "idle"
    /\ sent = NoEncrypt
    /\ tamper = NoTamper
    /\ wire_bundle = <<>>
    /\ wire_str = <<>>
    /\ received = NoParse
    /\ result = NoDecrypt
    /\ calls = <<>>

(***************************************************************************)
(* StegoEngine.compare_images.  The mean squared error is the fraction     *)
(* mse_num / mse_den; the PSNR is 20 * log10(255 / sqrt(mse)), infinite    *)
(* for mse = 0, so that psnr > 40 exactly when mse < 6.5025 = 2601 / 400.  *)
(***************************************************************************)
\* sum of the squared differences of the first n colour values
RECURSIVE SquaredError(_, _, _)
SquaredError(a, b, n) ==
    IF n = 0 THEN 0
    ELSE (SlotValue(a, n) - SlotValue(b, n)) * (SlotValue(a, n) - SlotValue(b, n))
         + SquaredError(a, b, n - 1)

\* a measure without the case mse == 0
MeasuredNoInf(num, den) == [mse_num |-> num, mse_den |-> den, psnr_inf |-> FALSE]

\* mse = num / den, and whether psnr is float('inf')
Measured(num, den) == [mse_num |-> num, mse_den |-> den, psnr_inf |-> num = 0]

\* psnr > 40: infinite, or 400 * mse_num < 2601 * mse_den
AboveForty(m) == m.psnr_inf \/ m.mse_num <= ((2601 * m.mse_den) - 1) \div 400

\* the dictionary compare_images returns
Compared(m) ==
    [ok |-> TRUE, err |-> "none",
     stats |-> [mse_num |-> m.mse_num, mse_den |-> m.mse_den,
                psnr_inf |-> m.psnr_inf,
                identical |-> m.mse_num = 0,
                visually_identical |-> AboveForty(m)]]

\* compare_images(original_path, stego_path): [ok, err, stats].  np.array
\* gives height x width values for mode L and height x width x 3 or 4
\* otherwise; arrays of different shape cannot be subtracted (the sizes
\* here never let numpy broadcast one shape to the other).  The alpha values
\* of two RGBA images are equal.
compare_images(fsv, original_path, stego_path) ==
    IF ~Exists(fsv, original_path) \/ ~Exists(fsv, stego_path)
    THEN [ok |-> FALSE, err |-> "not_found", stats |-> EmptyStats]
    ELSE IF ~IsImage(fsv[original_path]) \/ ~IsImage(fsv[stego_path])
    THEN [ok |-> FALSE, err |-> "invalid_image", stats |-> EmptyStats]
    ELSE LET a == fsv[original_path]
             b == fsv[stego_path]
             n == Max(Len(a.ov), Len(b.ov))
             rest == (BaseValue(a.base, n + 1) - BaseValue(b.base, n + 1))
                     * (BaseValue(a.base, n + 1) - BaseValue(b.base, n + 1))
             total == SquaredError(a, b, n) + (NSlots(a) - n) * rest
         IN  IF a.w # b.w \/ a.h # b.h \/ a.mode # b.mode
             THEN [ok |-> FALSE, err |-> "shape_mismatch", stats |-> EmptyStats]
             ELSE IF a.mode = "L"
             THEN Compared(Measured(total \div 3, a.w * a.h))
             ELSE Compared(Measured(total,
                               a.w * a.h * (IF a.mode = "RGB" THEN 3 ELSE 4)))

\* The key manager, the Key Manager page and the operation log before any
\* call: an empty keys directory, no analytics file.
EmptyDir == [f \in {} |-> NoFile]

NoKeyCall ==
    [op |-> "none", identifier |-> <<>>, key |-> <<>>, name |-> <<>>, text |-> <<>>,
     ok |-> FALSE, err |-> "none", data |-> NoFile, file |-> <<>>,
     before |-> EmptyDir, written |-> NoFile]

AppIdle ==
    /\ keys_dir = EmptyDir
    /\ key_call = NoKeyCall
    /\ session_state = {}
    /\ delete_clicks = EmptyDir
    /\ analytics_file = NoFile
    /\ logging = <<>>

(***************************************************************************)
(* The state machine of the stego engine: a file system holding one cover  *)
(* (and possibly other files), on which StegoEngine.hide is called once    *)
(* and the reading operations any number of times, before and after.       *)
(***************************************************************************)
Formats == {"PNG", "BMP", "TIFF", "JPEG"}
Modes == {"RGB", "RGBA", "L"}
Dimensions == {<<50, 50>>, <<99, 100>>, <<100, 99>>, <<100, 100>>}

CoverFiles ==
    {ImageFile(fmt, mode, d[1], d[2], "dark", "source") :
        fmt \in Formats, mode \in Modes, d \in Dimensions}
    \cup {ImageFile("JPEG", "RGB", 200, 200, "dark", "source"), Junk,
          ImageFile("PNG", "RGB", 100, 100, "light", "source"),
          ImageFile("BMP", "RGBA", 100, 100, "light", "source")}

\* Small pictures whose colour values are 0 and 1 and spell, 8 values to the
\* character, a text that hide has not written: "2:hi", "0:", "x:", ":",
\* "12", "9:" and "04:".
CraftedTexts ==
    {<<50, 58, 104, 105>>, <<48, 58>>, <<120, 58>>, <<58>>, <<49, 50>>,
     <<57, 58>>, <<48, 52, 58>>}

CraftedFiles ==
    {[ImageFile("PNG", "RGB", 4, 4, "dark", "source") EXCEPT !.ov = TextBits(text)] :
        text \in CraftedTexts}

\* a file that may lie beside the cover before any call
Sibling == ImageFile("PNG", "RGB", 50, 50, "light", "source")

PayloadChars == {65, 8364}

RECURSIVE SeqsUpTo(_, _)
SeqsUpTo(S, n) ==
    IF n = 0 THEN {<<>>}
    ELSE LET shorter == SeqsUpTo(S, n - 1)
         IN  shorter \cup {Append(q, c) : q \in {x \in shorter : Len(x) = n - 1}, c \in S}

ShortPayloads == SeqsUpTo(PayloadChars, MaxShort)

\* a payload of n letters 'A'
Run(n) == [i \in 1..n |-> 65]

\* payloads at the capacity boundary of a cover
BoundaryPayloads(fsv, cover) ==
    LET v == validate_image(fsv, cover)
    IN  IF v.ok
        THEN {Run(v.stats["capacity_bytes"]), Run(v.stats["capacity_bytes"] + 1)}
        ELSE {}

NoCall ==
    [op |-> "none", path |-> [stem |-> "a", suffix |-> "bmp"], payload |-> <<>>,
     out |-> [stem |-> "a", suffix |-> "bmp"], ok |-> FALSE, err |-> "none",
     text |-> <<>>, stats |-> EmptyStats, value |-> 0]

Init ==
    /\ \E c \in CoverFiles \cup CraftedFiles, p \in Paths, sib \in BOOLEAN :
          fs = [q \in Paths |-> IF q = p THEN c ELSE IF sib THEN Sibling ELSE NoFile]
    /\ pre = fs
    /\ hidden = FALSE
    /\ last = NoCall
    /\ hiding = <<>>
    /\ CryptoIdle
    /\ AppIdle

\* StegoEngine.validate_image(path)
ValidateImage(path) ==
    /\ LET v == validate_image(fs, path)
       IN  last' = [NoCall EXCEPT !.op = "validate_image", !.path = path,
                                  !.ok = v.ok, !.err = v.why, !.stats = v.stats]
    /\ pre' = fs
    /\ UNCHANGED <<fs, hidden, hiding>>
    /\ UNCHANGED <<cryptoVars, appVars>>

\* StegoEngine.calculate_capacity(path); it raises when the file is no image
CalculateCapacity(path) ==
    /\ IF Exists(fs, path) /\ IsImage(fs[path])
       THEN last' = [NoCall EXCEPT !.op = "calculate_capacity", !.path = path,
                                   !.ok = TRUE,
                                   !.value = calculate_capacity(fs[path])]
       ELSE last' = [NoCall EXCEPT !.op = "calculate_capacity", !.path = path,
                                   !.err = "invalid_image"]
    /\ pre' = fs
    /\ UNCHANGED <<fs, hidden, hiding>>
    /\ UNCHANGED <<cryptoVars, appVars>>

\* StegoEngine.hide(cover_path, secret_data, output_path)
Hide(cover_path, secret_data, output_path) ==
    /\ ~hidden
    /\ \E r \in {hide(fs, cover_path, secret_data, output_path)} :
           /\ fs' = r.fs
           /\ last' = [NoCall EXCEPT !.op = "hide", !.path = cover_path,
                                     !.payload = secret_data, !.out = output_path,
                                     !.ok = r.ok, !.err = r.err,
                                     !.value = r.capacity]
    /\ pre' = fs
    /\ hidden' = TRUE
    /\ UNCHANGED hiding
    /\ UNCHANGED <<cryptoVars, appVars>>

\* StegoEngine.reveal(stego_path)
Reveal(stego_path) ==
    /\ LET r == reveal(fs, stego_path)
       IN  last' = [NoCall EXCEPT !.op = "reveal", !.path = stego_path,
                                  !.ok = r.ok, !.err = r.err, !.text = r.text]
    /\ pre' = fs
    /\ UNCHANGED <<fs, hidden, hiding>>
    /\ UNCHANGED <<cryptoVars, appVars>>

\* StegoEngine.compare_images(original_path, stego_path)
CompareImages(original_path, stego_path) ==
    /\ \E r \in {compare_images(fs, original_path, stego_path)} :
          last' = [NoCall EXCEPT !.op = "compare_images", !.path = original_path,
                                 !.out = stego_path, !.ok = r.ok, !.err = r.err,
                                 !.stats = r.stats]
    /\ pre' = fs
    /\ UNCHANGED <<fs, hidden, hiding>>
    /\ UNCHANGED <<cryptoVars, appVars>>

Next ==
    \/ \E p \in Paths : ValidateImage(p)
    \/ \E p \in Paths : CalculateCapacity(p)
    \/ \E c \in Paths, o \in Paths, d \in ShortPayloads : Hide(c, d, o)
    \/ \E p \in Paths : Reveal(p)
    \/ \E p \in Paths, q \in Paths : CompareImages(p, q)

Spec == Init /\ [][Next]_vars

\* The same machine with hide called on payloads of exactly the capacity
\* validate_image reports for the cover, and of one byte more, and the
\* files inspected afterwards.
NextCapacity ==
    \/ \E p \in Paths : hidden /\ ValidateImage(p)
    \/ \E p \in Paths : hidden /\ CalculateCapacity(p)
    \/ \E c \in Paths, o \in Paths :
          \E d \in BoundaryPayloads(fs, c) : Hide(c, d, o)

CapacitySpec == Init /\ [][NextCapacity]_vars

(***************************************************************************)
(* Two hide calls at once.  Each call advances one file operation at a     *)
(* time: validate_image and the capacity check, prepare_image, lsb.hide,   *)
(* the save of the stego image, os.path.exists and os.remove of the        *)
(* clean-up, os.path.getsize of the result.  The other call may run        *)
(* between any two of them.  A single file operation is taken as atomic.   *)
(***************************************************************************)
\* the next step of hide call h on file system fsv: [fs, call]
HideStepped(fsv, h) ==
    LET prepared_path == PreparedPath(h.cover_path)
        Raise(err) == [fs |-> fsv, call |-> [h EXCEPT !.pc = "done", !.err = err]]
        Go(pc, after) == [fs |-> after, call |-> [h EXCEPT !.pc = pc]]
    IN  CASE h.pc = "validate" ->
                LET v == validate_image(fsv, h.cover_path)
                IN  IF ~v.ok THEN Raise("invalid_cover")
                    ELSE IF Utf8Size(h.secret_data) > v.stats["capacity_bytes"]
                    THEN Raise("too_large")
                    ELSE Go("prepare", fsv)
          [] h.pc = "prepare" ->
                IF ~Exists(fsv, h.cover_path) \/ ~IsImage(fsv[h.cover_path])
                THEN Raise("cover_unreadable")
                ELSE Go("embed", prepare_image(fsv, h.cover_path))
          [] h.pc = "embed" ->
                IF ~Exists(fsv, prepared_path) THEN Raise("prepared_missing")
                ELSE LET emb == lsb_hide(fsv[prepared_path], h.secret_data)
                     IN  IF ~emb.ok THEN Raise("embed_error")
                         ELSE [fs |-> fsv,
                               call |-> [h EXCEPT !.pc = "save", !.stego_img = emb.img]]
          [] h.pc = "save" ->
                Go("cleanup", [fsv EXCEPT ![h.output_path] = StegoFile(h.stego_img)])
          [] h.pc = "cleanup" ->
                IF prepared_path # h.cover_path /\ Exists(fsv, prepared_path)
                THEN Go("remove", fsv)
                ELSE Go("getsize", fsv)
          [] h.pc = "remove" ->
                IF ~Exists(fsv, prepared_path) THEN Raise("remove_error")
                ELSE Go("getsize", [fsv EXCEPT ![prepared_path] = NoFile])
          [] h.pc = "getsize" ->
                IF ~Exists(fsv, h.output_path) THEN Raise("output_missing")
                ELSE [fs |-> fsv,
                      call |-> [h EXCEPT !.pc = "done", !.ok = TRUE, !.err = "none"]]

\* the paths of the two calls: covers, outputs, and the prepared files
ConcurrentPaths ==
    [covers |-> {[stem |-> "a", suffix |-> "bmp"], [stem |-> "a", suffix |-> "tiff"],
                 [stem |-> "a", suffix |-> "png"], [stem |-> "b", suffix |-> "bmp"]},
     outputs |-> {[stem |-> "x", suffix |-> "png"], [stem |-> "y", suffix |-> "png"]},
     prepared |-> {[stem |-> "a", suffix |-> "png"], [stem |-> "b", suffix |-> "png"]}]

\* Valid covers at the cover paths (a.png may be absent), nothing at the
\* other paths, and two hide calls about to start on distinct covers and
\* distinct outputs.
ConcurrentInit ==
    /\ \E png \in BOOLEAN :
          fs = [q \in ConcurrentPaths.covers \cup ConcurrentPaths.outputs
                        \cup ConcurrentPaths.prepared |->
                  IF q \in ConcurrentPaths.covers /\ (q.suffix = "png" => png)
                  THEN ImageFile(IF q.suffix = "bmp" THEN "BMP"
                                 ELSE IF q.suffix = "tiff" THEN "TIFF" ELSE "PNG",
                                 "RGB", MIN_DIMENSION, MIN_DIMENSION,
                                 IF q.suffix = "tiff" THEN "light" ELSE "dark", "source")
                  ELSE NoFile]
    /\ pre = fs
    /\ hidden = FALSE
    /\ last = NoCall
    /\ \E c1 \in ConcurrentPaths.covers, c2 \in ConcurrentPaths.covers,
          o1 \in ConcurrentPaths.outputs, o2 \in ConcurrentPaths.outputs,
          d1 \in ShortPayloads, d2 \in ShortPayloads :
          /\ c1 # c2 /\ o1 # o2
          /\ hiding = [i \in 1..2 |->
                          [pc |-> "validate",
                           cover_path |-> IF i = 1 THEN c1 ELSE c2,
                           secret_data |-> IF i = 1 THEN d1 ELSE d2,
                           output_path |-> IF i = 1 THEN o1 ELSE o2,
                           stego_img |-> NoFile, ok |-> FALSE, err |-> "none"]]
    /\ CryptoIdle
    /\ AppIdle

\* hide call i takes its next step
HideStep(i) ==
    /\ hiding[i].pc # "done"
    /\ \E r \in {HideStepped(fs, hiding[i])} :
          /\ fs' = r.fs
          /\ hiding' = [hiding EXCEPT ![i] = r.call]
    /\ UNCHANGED <<pre, hidden, last>>
    /\ UNCHANGED <<cryptoVars, appVars>>

NextConcurrent == \E i \in DOMAIN hiding : HideStep(i)

ConcurrentSpec == ConcurrentInit /\ [][NextConcurrent]_vars

(***************************************************************************)
(* The state machine of the crypto engine: one plaintext is encrypted, the *)
(* bundle may be changed in one bit on its way, is packed into a bundle    *)
(* string and parsed back, and is decrypted with the same or another key.  *)
(***************************************************************************)
EngineKeys == {[i \in 1..KEY_SIZE |-> (n * i) % 256] : n \in 1..2}
\* keys of other lengths: none, a key of EngineKeys less its last byte, and
\* the same key with one byte more
OddKeys ==
    {<<>>, [i \in 1..(KEY_SIZE - 1) |-> i % 256], [i \in 1..(KEY_SIZE + 1) |-> i % 256]}
Nonces == {[i \in 1..NONCE_SIZE |-> (5 * i) % 256]}
\* "2024-01-01T00:00:00", a value of datetime.utcnow().isoformat()
Timestamps == {<<50, 48, 50, 52, 45, 48, 49, 45, 48, 49, 84, 48, 48, 58, 48, 48, 58, 48, 48>>}
Plaintexts == SeqsUpTo({104}, MaxShort)
\* {} and {"size": "x", "note": "n"}
Metadatas ==
    {<<>>,
     <<Item(Name.size, StrVal(<<120>>)), Item(Name.note, StrVal(<<110>>))>>}

\* Transport strings that no encrypt call made: "!!", "Q", and in base64
\* the texts "x", "5", {"version":"v2.0"}, {"nonce":5}, the byte 0xFF and
\* an object whose four fields are empty strings.
ForeignStrings ==
    LET Compact(d) == Utf8Encode(json_dumps(d, FALSE, <<44>>, <<58>>))
        texts == {<<120>>, <<53>>, <<255>>,
                  Compact(<<Item(Name.version, StrVal(VERSION))>>),
                  Compact(<<Item(Name.nonce, IntVal(5))>>),
                  Compact(<<Item(Name.nonce, StrVal(<<>>)), Item(Name.ciphertext, StrVal(<<>>)),
                            Item(Name.tag, StrVal(<<>>)), Item(Name.metadata, StrVal(<<>>))>>)}
    IN  {b64encode(text) : text \in texts} \cup {<<33, 33>>, <<81>>}

\* the positions of a sequence of length n within MaxTamperSpan of either end
TamperPositions(n) == {p \in 1..n : p <= MaxTamperSpan \/ p > n - MaxTamperSpan}

FlipBit(v, bit) == IF BitOf(v, bit) = 1 THEN v - Pow2(bit) ELSE v + Pow2(bit)

\* the characters of a field of the bundle, and the bytes it encodes, that
\* may be changed
Untouched == step = "encrypted" /\ tamper = NoTamper
TextPositions(field) ==
    IF Untouched THEN TamperPositions(Len(Get(wire_bundle, field).text)) ELSE {}
BytePositions(field) ==
    IF Untouched
    THEN TamperPositions(Len(b64decode(Get(wire_bundle, field).text).bytes))
    ELSE {}

CryptoInit ==
    /\ fs = [q \in Paths |-> NoFile]
    /\ pre = fs
    /\ hidden = FALSE
    /\ last = NoCall
    /\ hiding = <<>>
    /\ CryptoIdle
    /\ AppIdle

\* CryptoEngine(key).encrypt(plaintext, metadata), nonce being what
\* os.urandom returns to the call; when the constructor raises, nothing is
\* encrypted
Encrypt(key, plaintext, metadata, nonce, timestamp) ==
    /\ IF CryptoEngine(key).ok
       THEN \E made \in {encrypt(CryptoEngine(key), plaintext, metadata, nonce, timestamp)} :
               /\ sent' = [key |-> key, plaintext |-> plaintext, metadata |-> metadata,
                           nonce |-> nonce, timestamp |-> timestamp,
                           bundle |-> made.bundle,
                           caller_metadata |-> made.caller_metadata]
               /\ wire_bundle' = made.bundle
               /\ calls' = Append(calls,
                      [key |-> key, draw |-> nonce,
                       nonce |-> b64decode(Get(made.bundle, Name.nonce).text).bytes])
               /\ step' = "encrypted"
       ELSE /\ sent' = [NoEncrypt EXCEPT !.key = key, !.plaintext = plaintext,
                                         !.metadata = metadata,
                                         !.caller_metadata = metadata]
            /\ step' = "refused"
            /\ UNCHANGED <<wire_bundle, calls>>
    /\ UNCHANGED <<tamper, wire_str, received, result>>
    /\ UNCHANGED <<stegoVars, appVars>>

\* one bit of one character of a field of the bundle is changed
TamperText(field, pos, bit) ==
    /\ Untouched
    /\ LET text == Get(wire_bundle, field).text
       IN  wire_bundle' = SetItem(wire_bundle, field,
                             StrVal([text EXCEPT ![pos] = FlipBit(text[pos], bit)]))
    /\ tamper' = [kind |-> "text", field |-> field, pos |-> pos, bit |-> bit]
    /\ UNCHANGED <<step, sent, wire_str, received, result, calls>>
    /\ UNCHANGED <<stegoVars, appVars>>

\* one bit of one byte that a field of the bundle encodes is changed
TamperBytes(field, pos, bit) ==
    /\ Untouched
    /\ LET bytes == b64decode(Get(wire_bundle, field).text).bytes
       IN  wire_bundle' = SetItem(wire_bundle, field,
                        StrVal(b64encode([bytes EXCEPT ![pos] = FlipBit(bytes[pos], bit)])))
    /\ tamper' = [kind |-> "bytes", field |-> field, pos |-> pos, bit |-> bit]
    /\ UNCHANGED <<step, sent, wire_str, received, result, calls>>
    /\ UNCHANGED <<stegoVars, appVars>>

\* CryptoEngine.create_bundle_string(bundle)
CreateBundleString ==
    /\ step = "encrypted"
    /\ wire_str' = create_bundle_string(wire_bundle)
    /\ step' = "packed"
    /\ UNCHANGED <<sent, tamper, wire_bundle, received, result, calls>>
    /\ UNCHANGED <<stegoVars, appVars>>

\* CryptoEngine.parse_bundle_string(bundle_str)
ParseBundleString ==
    /\ step = "packed"
    /\ received' = parse_bundle_string(wire_str)
    /\ step' = "parsed"
    /\ UNCHANGED <<sent, tamper, wire_bundle, wire_str, result, calls>>
    /\ UNCHANGED <<stegoVars, appVars>>

\* CryptoEngine(key).decrypt(bundle); when the constructor raises, nothing
\* is decrypted
Decrypt(key) ==
    /\ step = "encrypted"
    /\ \E r \in {IF CryptoEngine(key).ok THEN decrypt(CryptoEngine(key), wire_bundle)
                  ELSE Raised("key_size")} :
          result' = [key |-> key, ok |-> r.ok, err |-> r.err,
                     plaintext |-> r.plaintext, metadata |-> r.metadata]
    /\ step' = "decrypted"
    /\ UNCHANGED <<sent, tamper, wire_bundle, wire_str, received, calls>>
    /\ UNCHANGED <<stegoVars, appVars>>

\* quick_decrypt(key, bundle_str) on the string of a bundle as encrypt
\* returned it
QuickDecrypt(key) ==
    /\ step = "packed"
    /\ tamper = NoTamper
    /\ \E r \in {quick_decrypt(key, wire_str)} :
          result' = [key |-> key, ok |-> r.ok, err |-> r.err,
                     plaintext |-> r.plaintext, metadata |-> r.metadata]
    /\ step' = "decrypted"
    /\ UNCHANGED <<sent, tamper, wire_bundle, wire_str, received, calls>>
    /\ UNCHANGED <<stegoVars, appVars>>

\* quick_decrypt(key, bundle_str) on a string that no encrypt call made
QuickDecryptForeign(key, bundle_str) ==
    /\ step = "idle"
    /\ wire_str' = bundle_str
    /\ received' = parse_bundle_string(bundle_str)
    /\ \E r \in {quick_decrypt(key, bundle_str)} :
          result' = [key |-> key, ok |-> r.ok, err |-> r.err,
                     plaintext |-> r.plaintext, metadata |-> r.metadata]
    /\ step' = "unpacked"
    /\ UNCHANGED <<sent, tamper, wire_bundle, calls>>
    /\ UNCHANGED <<stegoVars, appVars>>

\* A bundle sealed with the key outside encrypt: AESGCM(key).encrypt over
\* associated data that hold no key_hash, or the key_hash given.
Seal(key, plaintext, metadata, nonce) ==
    /\ step = "idle"
    /\ \E made \in {Sealed(CryptoEngine(key), plaintext, nonce,
                            Utf8Encode(json_dumps(metadata, TRUE, <<44, 32>>, <<58, 32>>)),
                            metadata)} :
          /\ sent' = [NoEncrypt EXCEPT !.key = key, !.plaintext = plaintext,
                                       !.metadata = metadata, !.nonce = nonce,
                                       !.bundle = made.bundle,
                                       !.caller_metadata = metadata]
          /\ wire_bundle' = made.bundle
    /\ step' = "sealed"
    /\ UNCHANGED <<tamper, wire_str, received, result, calls>>
    /\ UNCHANGED <<stegoVars, appVars>>

\* CryptoEngine(key).decrypt(bundle) on a bundle sealed outside encrypt
DecryptSealed(key) ==
    /\ step = "sealed"
    /\ \E r \in {decrypt(CryptoEngine(key), wire_bundle)} :
          result' = [key |-> key, ok |-> r.ok, err |-> r.err,
                     plaintext |-> r.plaintext, metadata |-> r.metadata]
    /\ step' = "opened"
    /\ UNCHANGED <<sent, tamper, wire_bundle, wire_str, received, calls>>
    /\ UNCHANGED <<stegoVars, appVars>>

NextCrypto ==
    \/ /\ step = "idle"
       /\ \E key \in EngineKeys \cup OddKeys, plaintext \in Plaintexts,
             metadata \in Metadatas, nonce \in Nonces, timestamp \in Timestamps :
             Encrypt(key, plaintext, metadata, nonce, timestamp)
    \/ \E field \in {Name.ciphertext, Name.tag, Name.metadata} :
          \E pos \in TextPositions(field), bit \in 0..7 : TamperText(field, pos, bit)
    \/ \E field \in {Name.ciphertext, Name.tag, Name.metadata} :
          \E pos \in BytePositions(field), bit \in 0..7 : TamperBytes(field, pos, bit)
    \/ CreateBundleString
    \/ ParseBundleString
    \/ \E key \in EngineKeys \cup OddKeys : Decrypt(key)
    \/ \E key \in EngineKeys \cup OddKeys : QuickDecrypt(key)
    \/ \E key \in EngineKeys, bundle_str \in ForeignStrings :
          QuickDecryptForeign(key, bundle_str)
    \/ \E key \in EngineKeys, plaintext \in Plaintexts, nonce \in Nonces,
          metadata \in {<<>>} \cup {<<Item(Name.key_hash, StrVal(KeyHash(k)))>> :
                                      k \in EngineKeys} :
          Seal(key, plaintext, metadata, nonce)
    \/ \E key \in EngineKeys : DecryptSealed(key)

CryptoSpec == CryptoInit /\ [][NextCrypto]_vars

\* The crypto engine called to encrypt several times in a row.  os.urandom
\* is taken as a source that gives no value twice: each call draws a value
\* that no earlier call has drawn.
NonceSource == {[i \in 1..NONCE_SIZE |-> (n * i) % 256] : n \in 5..(5 + MaxCalls)}
FreshNonces == NonceSource \ {calls[i].draw : i \in 1..Len(calls)}

NextNonce ==
    /\ Len(calls) < MaxCalls
    /\ \E key \in EngineKeys, plaintext \in Plaintexts, metadata \in Metadatas,
          nonce \in FreshNonces, timestamp \in Timestamps :
          Encrypt(key, plaintext, metadata, nonce, timestamp)

NonceSpec == CryptoInit /\ [][NextNonce]_vars

(***************************************************************************)
(* Claims about the stego engine.                                          *)
(***************************************************************************)
HideCalled == last.op = "hide"
CoverWasValid == validate_image(pre, last.path).ok
CoverCapacity == validate_image(pre, last.path).stats["capacity_bytes"]

\* a payload lsb.hide takes as it is: not empty, 8 bits to the character
PlainPayload(text) == Len(text) > 0 /\ \A j \in 1..Len(text) : text[j] < 256

\* C1: for every cover that passes validate_image, every payload within the
\* cover's capacity and every output path, hide succeeds and reveal of the
\* output returns exactly the payload (stated here for the payloads that
\* are not empty and hold no character above U+00FF).
C1_HideRevealRoundTrip ==
    (HideCalled /\ CoverWasValid /\ Utf8Size(last.payload) <= CoverCapacity
        /\ PlainPayload(last.payload))
        => /\ last.ok
           /\ reveal(fs, last.out) = [ok |-> TRUE, err |-> "none", text |-> last.payload]

\* C6: hide never mutates the cover file: whether hide returns or fails, the
\* cover holds the bytes it held before the call (stated for calls whose
\* output path is not the cover path itself).
C6_CoverUntouched ==
    (HideCalled /\ last.out # last.path) => fs[last.path] = pre[last.path]

\* C7: for every valid cover, RGB or RGBA, hide succeeds for a payload of
\* exactly capacity_bytes bytes and fails for one of capacity_bytes + 1
\* (stated for output paths other than the cover and the prepared file,
\* the cases of C1 and C6).
C7_CapacityBoundary ==
    (HideCalled /\ CoverWasValid
        /\ last.out \notin {last.path, PreparedPath(last.path)})
        => /\ Utf8Size(last.payload) = CoverCapacity => last.ok
           /\ Utf8Size(last.payload) = CoverCapacity + 1 => ~last.ok

\* The capacity the spec's formula gives an image file.
FormulaCapacity(f) ==
    ((f.w * f.h * (IF f.mode = "RGBA" THEN 4 ELSE 3)) \div 8) - 200

\* C8: calculate_capacity returns floor(width*height*channels/8) - 200 with
\* 4 channels for RGBA and 3 for every other mode, whatever the pixels hold,
\* and a repeated call on the unmodified file returns the same value.
C8_CapacityFormula ==
    [][(last'.op = "calculate_capacity" /\ last'.ok)
          => /\ last'.value = FormulaCapacity(fs[last'.path])
             /\ (last.op = "calculate_capacity" /\ last.ok /\ last.path = last'.path)
                   => last'.value = last.value]_vars

\* C8 witness: the capacity of an RGBA file whose pixels have been rewritten
C8_Witness ==
    /\ last.op = "calculate_capacity" /\ last.ok
    /\ fs[last.path].mode = "RGBA" /\ fs[last.path].ov # <<>>
    /\ last.value = 4800

\* C9: validate_image returns ok exactly when the file exists, decodes as an
\* image, has format PNG, BMP or TIFF, is at least 100 wide and 100 high and
\* has a capacity of at least 1000 bytes.
C9_ValidateIff ==
    last.op = "validate_image" =>
        (last.ok <=>
            /\ pre[last.path].kind = "image"
            /\ pre[last.path].fmt \in {"PNG", "BMP", "TIFF"}
            /\ pre[last.path].w >= 100 /\ pre[last.path].h >= 100
            /\ FormulaCapacity(pre[last.path]) >= 1000)

\* C9 witness: a 200x200 JPEG has been rejected
C9_Witness ==
    /\ last.op = "validate_image" /\ ~last.ok
    /\ fs[last.path].kind = "image" /\ fs[last.path].fmt = "JPEG"
    /\ fs[last.path].w = 200 /\ fs[last.path].h = 200

\* C10 as claimed: the stats of validate_image hold width, height, format
\* and capacity_bytes also when the result is not ok.
C10_StatsAlways ==
    (last.op = "validate_image" /\ pre[last.path].kind = "image")
        => {"width", "height", "format", "capacity_bytes"} \subseteq DOMAIN last.stats

\* C10 amended: width, height and format are returned whenever the file
\* decodes as an image, valid or not; capacity_bytes is returned exactly
\* when the format and dimension checks have passed; the stats are empty
\* when the file is missing or does not decode.
C10_StatsWhenDecoded ==
    last.op = "validate_image" =>
        IF pre[last.path].kind = "image"
        THEN /\ {"width", "height", "format"} \subseteq DOMAIN last.stats
             /\ last.stats["width"] = pre[last.path].w
             /\ last.stats["height"] = pre[last.path].h
             /\ last.stats["format"] = pre[last.path].fmt
             /\ ("capacity_bytes" \in DOMAIN last.stats) <=>
                    /\ pre[last.path].fmt \in {"PNG", "BMP", "TIFF"}
                    /\ pre[last.path].w >= 100 /\ pre[last.path].h >= 100
             /\ ("capacity_bytes" \in DOMAIN last.stats)
                    => last.stats["capacity_bytes"] = FormulaCapacity(pre[last.path])
        ELSE DOMAIN last.stats = {}

\* C10 witness: an image rejected as too small, its stats without capacity
C10_Witness ==
    /\ last.op = "validate_image" /\ ~last.ok /\ last.err = "too_small"
    /\ "width" \in DOMAIN last.stats
    /\ "capacity_bytes" \notin DOMAIN last.stats

\* C11: hide is all-or-nothing on its output: either it returns and the
\* output path holds a stego file from which the payload is revealed, or it
\* fails and no file is at the output path that was not there before.
C11_HideAllOrNothing ==
    HideCalled =>
        IF last.ok
        THEN reveal(fs, last.out) = [ok |-> TRUE, err |-> "none", text |-> last.payload]
        ELSE Exists(fs, last.out) => Exists(pre, last.out)

\* What a failed hide leaves at an output path that is not the path of its
\* prepared file: nothing that was not there before.
HideFailureLeavesOtherPaths ==
    (HideCalled /\ ~last.ok /\ last.out # PreparedPath(last.path))
        => (Exists(fs, last.out) => Exists(pre, last.out))

\* The first colon that the least significant bits of an image spell comes
\* after one or more digits, and the image holds as many characters after
\* that colon as the digits announce.
EmbeddedLengthFits(f) ==
    /\ IsImage(f)
    /\ f.mode \in {"RGB", "RGBA"}
    /\ \E c \in 2..((Len(f.ov) \div 8) + 1) :
          /\ RevealedChar(f, c) = COLON
          /\ \A i \in 1..(c - 1) : IsDigit(RevealedChar(f, i))
          /\ c + DigitsValue([i \in 1..(c - 1) |-> RevealedChar(f, i)]) <= NSlots(f) \div 8

\* C12: reveal fails with the not-found error when the path does not exist,
\* fails with the no-hidden-data error when the image carries no well-formed
\* length and colon or announces more characters than it holds, and never
\* returns an empty payload.
C12_RevealFailsCleanly ==
    last.op = "reveal" =>
        /\ ~Exists(pre, last.path) => (~last.ok /\ last.err = "not_found")
        /\ (Exists(pre, last.path) /\ ~EmbeddedLengthFits(pre[last.path]))
              => (~last.ok /\ last.err = "extraction_failed")
        /\ last.ok => last.text # <<>>

\* What does hold: reveal never returns an empty payload, fails with the
\* not-found error exactly when the path does not exist, and fails on every
\* image that spells no colon after digits alone.
RevealNeverEmpty ==
    last.op = "reveal" =>
        /\ last.ok => last.text # <<>>
        /\ (~last.ok /\ last.err = "not_found") <=> ~Exists(pre, last.path)
        /\ (IsImage(pre[last.path])
              /\ ~\E c \in 2..((Len(pre[last.path].ov) \div 8) + 1) :
                     /\ RevealedChar(pre[last.path], c) = COLON
                     /\ \A i \in 1..(c - 1) : IsDigit(RevealedChar(pre[last.path], i)))
              => ~last.ok

\* stego has the size and mode of the converted cover, and its colour
\* values differ from the cover's in the lowest bit of the first carried
\* values at most
SamePixelsBut(cover, stego, carried) ==
    /\ IsImage(stego)
    /\ stego.w = cover.w /\ stego.h = cover.h
    /\ stego.mode = ConvertedMode(cover.mode)
    /\ stego.base = cover.base
    /\ \A k \in 1..Max(carried, Max(Len(stego.ov), Len(cover.ov))) :
          /\ SlotValue(stego, k) \div 2 = SlotValue(cover, k) \div 2
          /\ k > carried => SlotValue(stego, k) = SlotValue(cover, k)

\* C20: the stego image hide produces has the cover's dimensions and the
\* cover's pixel data after conversion to RGB/RGBA, except possibly for
\* the least significant bit of the colour values that carry the embedded
\* bit stream; no higher bit and no later value is changed.
C20_OnlyPayloadLsbsChange ==
    (HideCalled /\ last.ok)
        => SamePixelsBut(pre[last.path], fs[last.out], Len(MessageBits(last.payload)))

\* hide has produced a stego image from a cover whose colour values are
\* 255, and some carried value of it has changed
C20_Witness ==
    /\ HideCalled /\ last.ok
    /\ pre[last.path].base = "light"
    /\ \E k \in 1..Len(MessageBits(last.payload)) :
          SlotValue(fs[last.out], k) # SlotValue(pre[last.path], k)

\* both concurrent hide calls have ended
BothHidesDone == hiding # <<>> /\ \A i \in DOMAIN hiding : hiding[i].pc = "done"

\* call i ended as hide does on the initial files alone, and every file
\* that run changes is as that run leaves it
EndsAsAlone(i) ==
    \E alone \in {hide(pre, hiding[i].cover_path, hiding[i].secret_data,
                       hiding[i].output_path)} :
        /\ hiding[i].ok = alone.ok
        /\ hiding[i].err = alone.err
        /\ \A q \in DOMAIN fs : alone.fs[q] # pre[q] => fs[q] = alone.fs[q]

\* the paths call i reads or writes: cover, output and prepared file
Touched(i) ==
    {hiding[i].cover_path, hiding[i].output_path, PreparedPath(hiding[i].cover_path)}

\* C19: two hide calls running at once on distinct cover paths and distinct
\* output paths each end with the outcome and the files of a run alone.
C19_ConcurrentHidesIndependent ==
    BothHidesDone => \A i \in DOMAIN hiding : EndsAsAlone(i)

\* What does hold: the calls end as alone when the prepared files are
\* distinct too, that is when no path of one call, the prepared file
\* included, is a path of the other.
DisjointHidesIndependent ==
    (BothHidesDone /\ Touched(1) \cap Touched(2) = {})
        => \A i \in DOMAIN hiding : EndsAsAlone(i)

\* Covers a.bmp and a.tiff, outputs x.png and y.png, no a.png before: the
\* four paths are distinct, both payloads can be embedded, both calls
\* prepare a.png, and one of them ends other than alone.
SharedPreparedFileHarmless ==
    ~(/\ BothHidesDone
      /\ {hiding[1].cover_path.suffix, hiding[2].cover_path.suffix} = {"bmp", "tiff"}
      /\ hiding[1].cover_path.stem = hiding[2].cover_path.stem
      /\ ~Exists(pre, PreparedPath(hiding[1].cover_path))
      /\ \A i \in DOMAIN hiding : hiding[i].secret_data # <<>>
      /\ \E i \in DOMAIN hiding : ~EndsAsAlone(i))

(***************************************************************************)
(* Claims about the crypto engine.                                         *)
(***************************************************************************)
\* quick_decrypt has returned for the string of the bundle encrypt made,
\* under the key that encrypted it
RoundTripDone ==
    step = "decrypted" /\ wire_str # <<>> /\ tamper = NoTamper /\ result.key = sent.key

\* the names of the fields encrypt writes into the metadata
GeneratedNames == {Name.version, Name.timestamp, Name.key_hash, Name.size}

SentGenerated ==
    GeneratedFields(CryptoEngine(sent.key), sent.plaintext, sent.timestamp)

\* C2 as stated: decrypt(key, parse_bundle_string(create_bundle_string(
\* encrypt(key, p, md)))) returns p and a metadata dict that holds every
\* field of md with its original value.
C2_EveryFieldKept ==
    RoundTripDone =>
        /\ result.ok
        /\ result.plaintext = sent.plaintext
        /\ Items(sent.metadata) \subseteq Items(result.metadata)

\* C2, amended: the round trip returns p and a metadata dict in which every
\* field of md whose name encrypt does not generate has its original value,
\* and version, timestamp, key_hash and size have the generated values,
\* whatever md held under those names.
C2_CustomFieldsKept ==
    RoundTripDone =>
        /\ result.ok
        /\ result.plaintext = sent.plaintext
        /\ \A i \in 1..Len(sent.metadata) :
              sent.metadata[i].k \notin GeneratedNames
                  => sent.metadata[i] \in Items(result.metadata)
        /\ Items(SentGenerated) \subseteq Items(result.metadata)

\* a round trip of metadata holding both a custom field and a field named
\* like a generated one: the first comes back, the second does not
C2_Witness ==
    /\ RoundTripDone
    /\ result.ok
    /\ sent.plaintext # <<>>
    /\ Item(Name.note, StrVal(<<110>>)) \in Items(sent.metadata)
    /\ Item(Name.note, StrVal(<<110>>)) \in Items(result.metadata)
    /\ Item(Name.size, StrVal(<<120>>)) \in Items(sent.metadata)
    /\ Item(Name.size, StrVal(<<120>>)) \notin Items(result.metadata)

\* decrypt has returned for a bundle of encrypt in which one bit was
\* changed, under the key that encrypted it
TamperedDecryptDone ==
    step = "decrypted" /\ wire_str = <<>> /\ tamper # NoTamper /\ result.key = sent.key

\* C3 as stated: after any bit of the ciphertext, tag or metadata of a
\* bundle of encrypt is changed, decrypt with the original key fails with
\* the authentication error and returns no plaintext.
C3_TamperDetected ==
    TamperedDecryptDone => ~result.ok /\ result.err = "authentication_failed"

\* What does hold: a changed bit of the bytes a field encodes always ends in
\* the authentication error, and a changed bit of the field's text never
\* yields a plaintext other than the one that was encrypted.
TamperedBytesDetected ==
    (TamperedDecryptDone /\ tamper.kind = "bytes")
        => ~result.ok /\ result.err = "authentication_failed"

TamperedTextHarmless ==
    (TamperedDecryptDone /\ tamper.kind = "text")
        => \/ ~result.ok /\ result.err \in {"authentication_failed", "decode_error"}
           \/ /\ result.ok
              /\ result.plaintext = sent.plaintext
              /\ b64decode(Get(wire_bundle, tamper.field).text)
                    = b64decode(Get(sent.bundle, tamper.field).text)

\* decrypt has returned for the bundle as encrypt made it, under another
\* key of KEY_SIZE bytes
WrongKeyDone ==
    /\ step = "decrypted" /\ tamper = NoTamper
    /\ result.key # sent.key /\ Len(result.key) = KEY_SIZE

\* C4: decrypting a bundle of encrypt under another 32-byte key fails with
\* the authentication error and returns no plaintext.
C4_WrongKeyRejected ==
    WrongKeyDone =>
        /\ ~result.ok
        /\ result.err = "authentication_failed"
        /\ result.plaintext = <<>>

C4_Witness ==
    /\ WrongKeyDone
    /\ Len(result.key) = KEY_SIZE
    /\ sent.plaintext # <<>>
    /\ result.err = "authentication_failed"

\* C5: parse_bundle_string(create_bundle_string(b)) == b for a bundle b of
\* the five string fields version, metadata, nonce, ciphertext and tag.
C5_BundleStringRoundTrip ==
    step = "parsed" => received.ok /\ Items(received.bundle) = Items(wire_bundle)

\* a bundle with a character json.dumps has to escape went through
C5_Witness ==
    /\ step = "parsed"
    /\ received.ok
    /\ {wire_bundle[i].k : i \in 1..Len(wire_bundle)}
          = {Name.version, Name.metadata, Name.nonce, Name.ciphertext, Name.tag}
    /\ tamper.kind = "text"
    /\ \E i \in 1..Len(Get(wire_bundle, tamper.field).text) :
          LET c == Get(wire_bundle, tamper.field).text[i]
          IN  c < 32 \/ c > 126 \/ c = QUOTE \/ c = BACKSLASH

\* C13: a key is accepted only if it is exactly 32 bytes long: with a key of
\* any other length the constructor raises the key-size error, so nothing is
\* encrypted or decrypted with it, and no key is cut or padded to 32 bytes.
C13_OnlyKeySize32 ==
    /\ (sent.bundle # <<>> \/ wire_bundle # <<>>) => Len(sent.key) = KEY_SIZE
    /\ \A i \in 1..Len(calls) : Len(calls[i].key) = KEY_SIZE
    /\ step = "refused"
          => (Len(sent.key) # KEY_SIZE /\ sent.bundle = <<>> /\ wire_bundle = <<>>)
    /\ (step = "decrypted" /\ Len(result.key) # KEY_SIZE)
          => (~result.ok /\ result.err = "key_size" /\ result.plaintext = <<>>)
    /\ (step = "decrypted" /\ result.err = "key_size") => Len(result.key) # KEY_SIZE

\* quick_decrypt has refused a key of 33 bytes whose first 32 are the key
\* that encrypted the bundle
C13_Witness ==
    /\ step = "decrypted" /\ wire_str # <<>>
    /\ Len(result.key) = KEY_SIZE + 1
    /\ SubSeq(result.key, 1, KEY_SIZE) = sent.key
    /\ ~result.ok /\ result.err = "key_size"

\* C14: in every bundle encrypt returns, the nonce decodes to 12 bytes, the
\* tag to 16 bytes and the ciphertext to as many bytes as the plaintext has,
\* the empty plaintext included (stated where encrypt has just returned).
C14_BundleLengths ==
    (Untouched /\ wire_bundle = sent.bundle) =>
        /\ \A name \in {Name.nonce, Name.tag, Name.ciphertext} :
              b64decode(Get(sent.bundle, name).text).ok
        /\ Len(b64decode(Get(sent.bundle, Name.nonce).text).bytes) = NONCE_SIZE
        /\ Len(b64decode(Get(sent.bundle, Name.tag).text).bytes) = TAG_SIZE
        /\ Len(b64decode(Get(sent.bundle, Name.ciphertext).text).bytes)
              = Len(sent.plaintext)

\* encrypt has returned a bundle for the empty plaintext
C14_Witness ==
    /\ step = "encrypted"
    /\ sent.plaintext = <<>>
    /\ Get(sent.bundle, Name.ciphertext).text = <<>>
    /\ Len(b64decode(Get(sent.bundle, Name.tag).text).bytes) = TAG_SIZE

\* the associated data of the bundle encrypt returned, read as JSON
SentMetadata ==
    json_loads(Utf8Decode(b64decode(Get(sent.bundle, Name.metadata).text).bytes).text)

\* The metadata md holds the fields encrypt generates for the call that was
\* made, and is the metadata that decrypt returns for the bundle.
HoldsGenerated(md, key_hash, opened) ==
    /\ md.ok
    /\ \A name \in {Name.version, Name.timestamp, Name.size, Name.key_hash} :
          Has(md.dict, name)
    /\ Get(md.dict, Name.version) = StrVal(VERSION)
    /\ Get(md.dict, Name.timestamp) = StrVal(sent.timestamp)
    /\ Get(md.dict, Name.size) = IntVal(Len(sent.plaintext))
    /\ Get(md.dict, Name.key_hash) = StrVal(key_hash)
    /\ Len(key_hash) = 16
    /\ \A i \in 1..16 : HexValue(key_hash[i]) >= 0
    /\ opened.ok
    /\ opened.metadata = md.dict

\* C15: the authenticated metadata of every bundle encrypt returns holds
\* version = "v2.0", the timestamp of the call, size = the length of the
\* plaintext and key_hash = the first 16 hex digits of SHA-256(key), also
\* when the caller's metadata held fields of these names (stated where
\* encrypt has just returned).
C15_GeneratedMetadata ==
    (Untouched /\ wire_bundle = sent.bundle) =>
        HoldsGenerated(SentMetadata, KeyHash(sent.key),
                       decrypt(CryptoEngine(sent.key), sent.bundle))

\* encrypt has returned a bundle for metadata in which the caller had put a
\* size of its own, and the bundle's metadata holds the generated size
C15_Witness ==
    /\ step = "encrypted"
    /\ Item(Name.size, StrVal(<<120>>)) \in Items(sent.metadata)
    /\ Get(SentMetadata.dict, Name.size) = IntVal(1)
    /\ Item(Name.note, StrVal(<<110>>)) \in Items(SentMetadata.dict)

\* C16: encrypt has no side effect: after it returns, the caller's metadata
\* mapping holds the fields and values it held before the call.
C16_CallerMetadataUntouched ==
    step = "encrypted" => Items(sent.caller_metadata) = Items(sent.metadata)

\* What does hold: the caller's mapping is as it was when it was empty, and
\* otherwise it is the mapping that was authenticated, the caller's fields
\* updated with the generated ones.
CallerMetadataBecomesMeta ==
    (Untouched /\ wire_bundle = sent.bundle) =>
        IF sent.metadata = <<>> THEN sent.caller_metadata = <<>>
        ELSE Items(sent.caller_metadata) = Items(SentMetadata.dict)

C18_MalformedBundleTyped ==
    step = "unpacked" =>
        /\ ~result.ok
        /\ result.err \in {"decode_error", "unicode_error", "json_error",
                            "authentication_failed"}

\* What does hold: no such string yields a plaintext, and a string that is
\* no base64, no UTF-8 or no JSON fails in parse_bundle_string with the
\* error of the decoder, a ValueError.
ForeignNeverOpened ==
    step = "unpacked" =>
        /\ ~result.ok /\ result.plaintext = <<>>
        /\ ~received.ok => result.err = received.err
        /\ ~received.ok => received.err \in {"decode_error", "unicode_error", "json_error"}

\* C27: besides output_path, hide leaves the file system as it found it,
\* whether it returns or fails: no prepared image remains, and no file
\* that was there before, other than output_path, is overwritten or deleted.
C27_HideLeavesOtherFiles ==
    HideCalled => \A q \in DOMAIN fs : q # last.out => fs[q] = pre[q]

\* What does hold: hide leaves alone every path other than the output and
\* the cover's name with the suffix .png, and a hide that is refused before
\* prepare_image leaves every path alone.
HideTouchesPreparedAndOutput ==
    HideCalled =>
        /\ \A q \in DOMAIN fs :
              q \notin {last.out, PreparedPath(last.path)} => fs[q] = pre[q]
        /\ last.err \in {"invalid_cover", "too_large"} => fs = pre

\* the key_hash of associated data, as decrypt reads it, is that of the key
KeyHashIn(aad, key) ==
    \E md \in {json_loads(Utf8Decode(aad).text)} :
        /\ md.ok
        /\ Has(md.dict, Name.key_hash)
        /\ Get(md.dict, Name.key_hash) = StrVal(KeyHash(key))

\* res is what the two checks allow, opened being the outcome of the tag
\* check and hash_ok that of the key_hash comparison
TagThenKeyHash(res, opened, hash_ok) ==
    /\ res.ok => (opened.err = "none" /\ hash_ok /\ res.plaintext = opened.plaintext)
    /\ opened.err = "InvalidTag" => (~res.ok /\ res.err = "authentication_failed")
    /\ (opened.err = "none" /\ ~hash_ok)
          => (~res.ok /\ res.err = "key_mismatch" /\ res.plaintext = <<>>)
    /\ (opened.err = "none" /\ hash_ok) => res.ok

\* C24: decrypt returns a plaintext only if the tag verifies over nonce,
\* ciphertext and associated data and then the key_hash of the metadata
\* equals that of the decrypting key; the tag is checked first, and a bundle
\* whose tag verifies but whose key_hash differs or is missing is rejected
\* with an error and no plaintext.
C24_TagBeforeKeyHash ==
    (step \in {"decrypted", "opened"} /\ Len(result.key) = KEY_SIZE
        /\ \A name \in {Name.nonce, Name.ciphertext, Name.tag, Name.metadata} :
              b64decode(Get(wire_bundle, name).text).ok)
    => \E aad \in {b64decode(Get(wire_bundle, Name.metadata).text).bytes} :
          TagThenKeyHash(result,
              AesGcmDecrypt(result.key, b64decode(Get(wire_bundle, Name.nonce).text).bytes,
                            b64decode(Get(wire_bundle, Name.ciphertext).text).bytes
                                \o b64decode(Get(wire_bundle, Name.tag).text).bytes,
                            aad),
              KeyHashIn(aad, result.key))

\* decrypt has rejected, for its key_hash, a bundle sealed with its own key
C24_Witness ==
    /\ step = "opened"
    /\ result.key = sent.key
    /\ ~result.ok /\ result.err = "key_mismatch" /\ result.plaintext = <<>>

\* a and b are images of one size and mode whose colour values differ by
\* d at most
PixelsWithin(a, b, d) ==
    /\ IsImage(a) /\ IsImage(b)
    /\ a.w = b.w /\ a.h = b.h /\ a.mode = b.mode
    /\ \A k \in 1..(Max(Len(a.ov), Len(b.ov)) + 1) :
          /\ SlotValue(a, k) - SlotValue(b, k) <= d
          /\ SlotValue(b, k) - SlotValue(a, k) <= d

\* C21: compare_images on two pixel-identical images returns mse 0, an
\* infinite psnr, identical and visually_identical; on two images of one
\* size that differ in least significant bits only it returns psnr > 40 and
\* visually_identical; and visually_identical is true exactly when
\* psnr > 40.
C21_CompareImages ==
    last.op = "compare_images" =>
        /\ PixelsWithin(pre[last.path], pre[last.out], 0)
              => /\ last.ok
                 /\ last.stats["mse_num"] = 0
                 /\ last.stats["psnr_inf"]
                 /\ last.stats["identical"]
                 /\ last.stats["visually_identical"]
        /\ PixelsWithin(pre[last.path], pre[last.out], 1)
              => /\ last.ok
                 /\ last.stats["mse_num"] <= last.stats["mse_den"]
                 /\ last.stats["psnr_inf"]
                       \/ last.stats["mse_num"] <= ((2601 * last.stats["mse_den"]) - 1) \div 400
                 /\ last.stats["visually_identical"]
        /\ last.ok
              => (last.stats["visually_identical"]
                    <=> (last.stats["psnr_inf"]
                           \/ last.stats["mse_num"]
                                 <= ((2601 * last.stats["mse_den"]) - 1) \div 400))

\* a cover has been compared with the stego image hide made of it, and the
\* two differ in least significant bits
C21_Witness ==
    /\ last.op = "compare_images"
    /\ hidden
    /\ last.path # last.out
    /\ PixelsWithin(pre[last.path], pre[last.out], 1)
    /\ ~PixelsWithin(pre[last.path], pre[last.out], 0)
    /\ last.ok /\ last.stats["visually_identical"] /\ ~last.stats["identical"]

(***************************************************************************)
(* KeyManager.  A text is the sequence of its code points.  KEYS_DIR maps  *)
(* the name of each file in it to the key record the file holds: json.dump *)
(* and json.load of a record of strings and one number give the record     *)
(* back.  Every file of the directory is one that save_key wrote, so that  *)
(* glob("*.key.json") yields them all, in an order the file system chooses. *)
(***************************************************************************)
\* ".key.json"
KEY_JSON == <<46, 107, 101, 121, 46, 106, 115, 111, 110>>

\* a converter that does not look at the size of the key
string_to_keyAnySize(key_string) ==
    LET raw == b64decode(key_string)
    IN  IF ~raw.ok THEN [ok |-> FALSE, err |-> "ValueError", key |-> <<>>]
        ELSE [ok |-> TRUE, err |-> "none", key |-> raw.bytes]

\* key_to_string(key)
key_to_string(key) == b64encode(key)

\* string_to_key(key_string): [ok, err, key]; whatever is raised inside the
\* try block, the size error included, leaves as a ValueError
string_to_key(key_string) ==
    LET raw == b64decode(key_string)
    IN  IF ~raw.ok \/ Len(raw.bytes) # KEY_SIZE
        THEN [ok |-> FALSE, err |-> "ValueError", key |-> <<>>]
        ELSE [ok |-> TRUE, err |-> "none", key |-> raw.bytes]

\* get_key_fingerprint(key): hashlib.sha256(key).hexdigest()[:16].upper()
get_key_fingerprint(key) ==
    LET hexdigest == KeyHash(key)
    IN  [j \in 1..16 |-> IF hexdigest[j] >= 97 THEN hexdigest[j] - 32 ELSE hexdigest[j]]

\* the sanitized name: the letters, digits, ' ', '-' and '_' of the name,
\* stripped of spaces at both ends
SafeName(name) ==
    LET kept == SelectSeq(name, LAMBDA c :
                    \/ (c >= 48 /\ c <= 57) \/ (c >= 65 /\ c <= 90) \/ (c >= 97 /\ c <= 122)
                    \/ c \in {32, 45, 95})
        solid == {i \in 1..Len(kept) : kept[i] # 32}
    IN  IF solid = {} THEN <<>>
        ELSE SubSeq(kept, CHOOSE i \in solid : \A j \in solid : i <= j,
                    CHOOSE i \in solid : \A j \in solid : i >= j)

\* save_key(key, name, description) at the time created: [dir, filepath]
save_key(dir, key, name, description, created) ==
    LET fingerprint == get_key_fingerprint(key)
        key_data == [name |-> name, description |-> description,
                     key |-> key_to_string(key), fingerprint |-> fingerprint,
                     algorithm |-> "AES-256-GCM", size_bits |-> KEY_SIZE * 8,
                     created |-> created, version |-> "2.0"]
        filename == SafeName(name) \o <<95>> \o fingerprint \o KEY_JSON
    IN  [dir |-> [f \in DOMAIN dir \cup {filename} |->
                     IF f = filename THEN key_data ELSE dir[f]],
         filepath |-> filename]

\* A KeyManager call that raised.
KeyRaised(err) ==
    [ok |-> FALSE, err |-> err, key |-> <<>>, data |-> NoFile, file |-> <<>>]

\* the files load_key may settle on: the identifier itself, the identifier
\* with ".key.json", or the first file of the glob whose record has the
\* identifier as name or fingerprint, which may be any such file
LoadPaths(dir, identifier) ==
    IF identifier \in DOMAIN dir THEN {identifier}
    ELSE IF (identifier \o KEY_JSON) \in DOMAIN dir THEN {identifier \o KEY_JSON}
    ELSE {f \in DOMAIN dir :
             dir[f].name = identifier \/ dir[f].fingerprint = identifier}

\* load_key(identifier): the outcomes [ok, err, key, data, file] it may
\* have; the empty identifier names KEYS_DIR itself, which open() refuses
load_key(dir, identifier) ==
    IF identifier = <<>> THEN {KeyRaised("IsADirectoryError")}
    ELSE IF LoadPaths(dir, identifier) = {} THEN {KeyRaised("FileNotFoundError")}
    ELSE {LET key == string_to_key(dir[f].key)
          IN  IF key.ok
              THEN [ok |-> TRUE, err |-> "none", key |-> key.key, data |-> dir[f], file |-> f]
              ELSE KeyRaised("ValueError") : f \in LoadPaths(dir, identifier)}

\* text in name
Contains(name, text) ==
    \E i \in 0..(Len(name) - Len(text)) : SubSeq(name, i + 1, i + Len(text)) = text

\* delete_key(identifier): the outcomes [ok, dir, file] it may have; the
\* file unlinked is the first of the glob that is named as the identifier
\* or has the fingerprint in its name
delete_key(dir, identifier) ==
    UNION {IF ~loaded.ok THEN {[ok |-> FALSE, dir |-> dir, file |-> <<>>]}
           ELSE IF \A f \in DOMAIN dir :
                      f # identifier /\ ~Contains(f, loaded.data.fingerprint)
           THEN {[ok |-> FALSE, dir |-> dir, file |-> <<>>]}
           ELSE {[ok |-> TRUE, dir |-> [g \in DOMAIN dir \ {f} |-> dir[g]], file |-> f] :
                    f \in {f \in DOMAIN dir :
                              f = identifier \/ Contains(f, loaded.data.fingerprint)}} :
           loaded \in load_key(dir, identifier)}

\* export_key(identifier, export_path): the outcomes it may have, written
\* being the document the export file holds
export_key(dir, identifier) ==
    {[ok |-> loaded.ok, err |-> loaded.err, file |-> loaded.file,
      written |-> IF loaded.ok
                  THEN [key |-> key_to_string(loaded.key), metadata |-> loaded.data]
                  ELSE NoFile] : loaded \in load_key(dir, identifier)}

\* an import that stores every key as 'Imported Key'
import_keyDefaultName(dir, import_data, created) ==
    LET key == string_to_key(import_data.key)
        name == <<73, 109, 112, 111, 114, 116, 101, 100, 32, 75, 101, 121>>
    IN  [ok |-> key.ok, name |-> name,
         dir |-> IF key.ok
                 THEN save_key(dir, key.key, name, import_data.metadata.description,
                               created).dir
                 ELSE dir]

\* import_key(import_path) on a file that export_key wrote: [ok, name, dir]
import_key(dir, import_data, created) ==
    LET key == string_to_key(import_data.key)
        name == import_data.metadata.name
    IN  [ok |-> key.ok, name |-> name,
         dir |-> IF key.ok
                 THEN save_key(dir, key.key, name, import_data.metadata.description,
                               created).dir
                 ELSE dir]

(***************************************************************************)
(* The state machine of the key manager: keys are converted, saved (a      *)
(* bounded number of times), loaded, deleted, exported and imported.       *)
(***************************************************************************)
\* "a", "b" and "a/", which save_key sanitizes to "a"
KeyNames == {<<97>>, <<98>>, <<97, 47>>}

\* strings that are no key string: none, "Q", a key string with its last
\* character cut, one with "=" for its last character but one, and the
\* strings of 31 and 33 bytes; and two that decode to 32 bytes though no
\* key_to_string gives them: a key string with "!" or a space in it
OddKeyStrings ==
    LET good == key_to_string([i \in 1..KEY_SIZE |-> i % 256])
    IN  {<<>>, <<81>>, SubSeq(good, 1, Len(good) - 1),
         [good EXCEPT ![Len(good) - 1] = 61],
         key_to_string([i \in 1..(KEY_SIZE - 1) |-> i % 256]),
         key_to_string([i \in 1..(KEY_SIZE + 1) |-> i % 256]),
         <<33>> \o good, SubSeq(good, 1, 4) \o <<32>> \o SubSeq(good, 5, Len(good)),
         [good EXCEPT ![1] = 233]}

\* what a caller may pass for a key: a name, a fingerprint, a file name with
\* or without ".key.json", nothing, or "zz"
Identifiers ==
    KeyNames \cup {get_key_fingerprint(k) : k \in EngineKeys}
    \cup DOMAIN keys_dir
    \cup {SubSeq(f, 1, Len(f) - Len(KEY_JSON)) : f \in DOMAIN keys_dir}
    \cup {<<>>, <<122, 122>>}

\* KeyManager.key_to_string(key)
KeyToString(key) ==
    /\ key_call' = [NoKeyCall EXCEPT !.op = "key_to_string", !.key = key, !.ok = TRUE,
                                     !.text = key_to_string(key)]
    /\ UNCHANGED <<keys_dir, session_state, delete_clicks, analytics_file, logging>>
    /\ UNCHANGED <<stegoVars, cryptoVars>>

\* KeyManager.string_to_key(key_string)
StringToKey(key_string) ==
    /\ \E r \in {string_to_key(key_string)} :
          key_call' = [NoKeyCall EXCEPT !.op = "string_to_key", !.text = key_string,
                                        !.ok = r.ok, !.err = r.err, !.key = r.key]
    /\ UNCHANGED <<keys_dir, session_state, delete_clicks, analytics_file, logging>>
    /\ UNCHANGED <<stegoVars, cryptoVars>>

\* KeyManager().save_key(key, name, description)
SaveKey(key, name, description, created) ==
    /\ \E r \in {save_key(keys_dir, key, name, description, created)} :
          /\ keys_dir' = r.dir
          /\ key_call' = [NoKeyCall EXCEPT !.op = "save_key", !.key = key, !.name = name,
                                           !.ok = TRUE, !.file = r.filepath,
                                           !.data = r.dir[r.filepath],
                                           !.before = keys_dir]
    /\ UNCHANGED <<session_state, delete_clicks, analytics_file, logging>>
    /\ UNCHANGED <<stegoVars, cryptoVars>>

\* KeyManager().load_key(identifier)
LoadKey(identifier) ==
    /\ \E r \in load_key(keys_dir, identifier) :
          key_call' = [NoKeyCall EXCEPT !.op = "load_key", !.identifier = identifier,
                                        !.ok = r.ok, !.err = r.err, !.key = r.key,
                                        !.data = r.data, !.file = r.file,
                                        !.before = keys_dir]
    /\ UNCHANGED <<keys_dir, session_state, delete_clicks, analytics_file, logging>>
    /\ UNCHANGED <<stegoVars, cryptoVars>>

\* KeyManager().delete_key(identifier)
DeleteKey(identifier) ==
    /\ \E r \in delete_key(keys_dir, identifier) :
          /\ keys_dir' = r.dir
          /\ key_call' = [NoKeyCall EXCEPT !.op = "delete_key", !.identifier = identifier,
                                           !.ok = r.ok, !.file = r.file,
                                           !.before = keys_dir]
    /\ UNCHANGED <<session_state, delete_clicks, analytics_file, logging>>
    /\ UNCHANGED <<stegoVars, cryptoVars>>

\* KeyManager().export_key(identifier, export_path), export_path being a
\* file outside the glob of the directory
ExportKey(identifier) ==
    /\ \E r \in export_key(keys_dir, identifier) :
          key_call' = [NoKeyCall EXCEPT !.op = "export_key", !.identifier = identifier,
                                        !.ok = r.ok, !.err = r.err, !.file = r.file,
                                        !.written = r.written, !.before = keys_dir]
    /\ UNCHANGED <<keys_dir, session_state, delete_clicks, analytics_file, logging>>
    /\ UNCHANGED <<stegoVars, cryptoVars>>

\* KeyManager().import_key(import_path) on the file the export just wrote
ImportKey(created) ==
    /\ key_call.op = "export_key"
    /\ key_call.ok
    /\ \E r \in {import_key(keys_dir, key_call.written, created)} :
          /\ keys_dir' = r.dir
          /\ key_call' = [NoKeyCall EXCEPT !.op = "import_key", !.ok = r.ok,
                                           !.name = r.name, !.file = key_call.file,
                                           !.written = key_call.written,
                                           !.before = keys_dir]
    /\ UNCHANGED <<session_state, delete_clicks, analytics_file, logging>>
    /\ UNCHANGED <<stegoVars, cryptoVars>>

\* the times at which keys are saved: "2024-01-01T00:00:00" and one second on
Createds ==
    Timestamps \cup {[t EXCEPT ![Len(t)] = 49] : t \in Timestamps}

NextKeys ==
    \/ \E key \in EngineKeys \cup OddKeys : KeyToString(key)
    \/ \E key_string \in OddKeyStrings \cup {key_call.text} : StringToKey(key_string)
    \/ /\ Cardinality(DOMAIN keys_dir) < MaxKeys
       /\ \E key \in EngineKeys, name \in KeyNames, created \in Createds :
             SaveKey(key, name, <<>>, created)
    \/ \E identifier \in Identifiers : LoadKey(identifier)
    \/ \E identifier \in Identifiers : DeleteKey(identifier)
    \/ \E identifier \in Identifiers : ExportKey(identifier)
    \/ \E created \in Createds : ImportKey(created)

KeySpec == CryptoInit /\ [][NextKeys]_vars

\* C22: string_to_key gives back every 32-byte key that key_to_string wrote,
\* and it raises a ValueError on every string that does not decode to
\* exactly 32 bytes (and on no other string).
C22_KeyStringRoundTrip ==
    key_call.op = "string_to_key" =>
        LET raw == b64decode(key_call.text)
        IN  /\ \A k \in EngineKeys : key_call.text = key_to_string(k) =>
                  key_call.ok /\ key_call.key = k
            /\ key_call.ok <=> (raw.ok /\ Len(raw.bytes) = KEY_SIZE)
            /\ key_call.ok => key_call.key = raw.bytes
            /\ ~key_call.ok => key_call.err = "ValueError"

\* a 32-byte key has come back from its string
C22_Witness ==
    /\ key_call.op = "string_to_key"
    /\ key_call.ok
    /\ key_call.key \in EngineKeys
    /\ key_call.text = key_to_string(key_call.key)

\* C25: load_key(name) returns the key and the record of every key that was
\* saved under that name and is still stored, whatever other keys were saved
\* since; and load_key raises FileNotFoundError exactly when no stored key
\* has the identifier as its file name, name or fingerprint.
C25_LoadAfterSave ==
    key_call.op = "load_key" =>
        /\ \A f \in DOMAIN keys_dir : keys_dir[f].name = key_call.identifier =>
              /\ key_call.ok
              /\ key_call.data = keys_dir[f]
              /\ key_to_string(key_call.key) = keys_dir[f].key
        /\ key_call.err = "FileNotFoundError" <=>
              \A f \in DOMAIN keys_dir :
                  /\ f # key_call.identifier
                  /\ keys_dir[f].name # key_call.identifier
                  /\ keys_dir[f].fingerprint # key_call.identifier

\* no two stored keys have the same name
NamesUnique ==
    \A f \in DOMAIN keys_dir, g \in DOMAIN keys_dir :
        keys_dir[f].name = keys_dir[g].name => f = g

\* while names are unique, load_key(name) returns the key saved under it
LoadByUniqueName ==
    key_call.op = "load_key" /\ NamesUnique =>
        \A f \in DOMAIN keys_dir : keys_dir[f].name = key_call.identifier =>
            /\ key_call.ok
            /\ key_call.data = keys_dir[f]
            /\ key_to_string(key_call.key) = keys_dir[f].key

\* load_key raises FileNotFoundError when nothing matches, and when it
\* raises it the identifier is no file name, name or fingerprint
NotFoundOnlyWhenNoMatch ==
    key_call.op = "load_key" =>
        /\ key_call.err = "FileNotFoundError" =>
              \A f \in DOMAIN keys_dir :
                  /\ f # key_call.identifier
                  /\ keys_dir[f].name # key_call.identifier
                  /\ keys_dir[f].fingerprint # key_call.identifier
        /\ (key_call.identifier # <<>> /\ LoadPaths(keys_dir, key_call.identifier) = {}) =>
              key_call.err = "FileNotFoundError"

\* C26: delete_key(identifier) removes the file that load_key(identifier)
\* resolves to and no other file, also when stored records share a
\* fingerprint or a name; when no key matches it returns False and leaves
\* the store as it was.
C26_DeleteRemovesResolved ==
    key_call.op = "delete_key" =>
        IF LoadPaths(key_call.before, key_call.identifier) = {}
        THEN ~key_call.ok /\ keys_dir = key_call.before
        ELSE /\ key_call.ok
             /\ key_call.file \in LoadPaths(key_call.before, key_call.identifier)
             /\ keys_dir = [f \in DOMAIN key_call.before \ {key_call.file} |->
                               key_call.before[f]]

\* delete_key removes one file or none, and none when no key matches
DeleteRemovesAtMostOne ==
    key_call.op = "delete_key" =>
        /\ key_call.ok <=> LoadPaths(key_call.before, key_call.identifier) # {}
        /\ ~key_call.ok => keys_dir = key_call.before
        /\ key_call.ok =>
              /\ key_call.file \in DOMAIN key_call.before
              /\ keys_dir = [f \in DOMAIN key_call.before \ {key_call.file} |->
                                key_call.before[f]]

\* while no two stored files hold the same key, delete_key removes the
\* file load_key resolves to
DeleteWithDistinctKeys ==
    (/\ key_call.op = "delete_key"
     /\ key_call.ok
     /\ \A f \in DOMAIN key_call.before, g \in DOMAIN key_call.before :
           key_call.before[f].fingerprint = key_call.before[g].fingerprint => f = g)
    => key_call.file \in LoadPaths(key_call.before, key_call.identifier)

\* C30: import_key applied to the file that export_key wrote for a stored
\* key stores the same key bytes under the same name and fingerprint,
\* returns that name, and leaves the number of stored records, and every
\* other record, as they were.
C30_ExportImportRoundTrip ==
    key_call.op = "import_key" =>
        LET exported == key_call.before[key_call.file]
        IN  /\ key_call.ok
            /\ key_call.name = exported.name
            /\ Cardinality(DOMAIN keys_dir) = Cardinality(DOMAIN key_call.before)
            /\ DOMAIN keys_dir = DOMAIN key_call.before
            /\ keys_dir[key_call.file].name = exported.name
            /\ keys_dir[key_call.file].fingerprint = exported.fingerprint
            /\ keys_dir[key_call.file].key = exported.key
            /\ string_to_key(keys_dir[key_call.file].key).key
                   = string_to_key(key_call.written.key).key
            /\ \A f \in DOMAIN keys_dir \ {key_call.file} : keys_dir[f] = key_call.before[f]

\* a key was exported from a store of two and imported at a later time
C30_Witness ==
    /\ key_call.op = "import_key"
    /\ key_call.ok
    /\ Cardinality(DOMAIN keys_dir) = 2
    /\ keys_dir[key_call.file].created # key_call.before[key_call.file].created
    /\ keys_dir[key_call.file].key = key_call.before[key_call.file].key

(***************************************************************************)
(* The Key Manager page.  session_state holds the indexes i for which      *)
(* confirm_delete_i was set; it outlives every rerun of the script.        *)
(* delete_clicks counts, for every key file that was ever stored, the      *)
(* clicks made on the Delete button of its row.  A generated key is fresh: *)
(* os.urandom does not give the bytes of a key that was stored before.     *)
(***************************************************************************)
\* most clicks on the Delete button of one key
MaxClicks == 3

\* list_keys(): the rows of the stored keys, sorted by file name
list_keys(dir) ==
    [i \in 1..Cardinality(DOMAIN dir) |->
        LET keyfile == CHOOSE f \in DOMAIN dir :
                           Cardinality({g \in DOMAIN dir : StrLess(g, f)}) = i - 1
        IN  [file |-> keyfile, name |-> dir[keyfile].name,
             description |-> dir[keyfile].description,
             fingerprint |-> dir[keyfile].fingerprint,
             created |-> dir[keyfile].created, algorithm |-> dir[keyfile].algorithm]]

\* a click on the Delete button of row i: with confirm_delete_i set the key
\* is deleted by its name and the script reruns, otherwise the flag is set
ClickDelete(i) ==
    LET keys == list_keys(keys_dir)
    IN  /\ i < Len(keys)
        /\ delete_clicks[keys[i + 1].file] < MaxClicks
        /\ delete_clicks' = [delete_clicks EXCEPT ![keys[i + 1].file] = @ + 1]
        /\ IF i \in session_state
           THEN \E r \in delete_key(keys_dir, keys[i + 1].name) :
                   /\ keys_dir' = r.dir
                   /\ key_call' = [NoKeyCall EXCEPT !.op = "click_delete",
                                       !.name = keys[i + 1].file,
                                       !.identifier = keys[i + 1].name,
                                       !.ok = r.ok, !.file = r.file, !.before = keys_dir]
                   /\ UNCHANGED session_state
           ELSE /\ session_state' = session_state \cup {i}
                /\ key_call' = [NoKeyCall EXCEPT !.op = "click_delete",
                                    !.name = keys[i + 1].file,
                                    !.identifier = keys[i + 1].name,
                                    !.before = keys_dir]
                /\ UNCHANGED keys_dir
        /\ UNCHANGED <<analytics_file, logging>>
        /\ UNCHANGED <<stegoVars, cryptoVars>>

\* the Generate button with a name typed in: a fresh key is saved
PageGenerate(key, name, created) ==
    /\ \A f \in DOMAIN delete_clicks : ~Contains(f, get_key_fingerprint(key))
    /\ \E r \in {save_key(keys_dir, key, name, <<>>, created)} :
          /\ keys_dir' = r.dir
          /\ delete_clicks' = [f \in DOMAIN delete_clicks \cup {r.filepath} |->
                                  IF f = r.filepath THEN 0 ELSE delete_clicks[f]]
          /\ key_call' = [NoKeyCall EXCEPT !.op = "save_key", !.key = key, !.name = name,
                                           !.ok = TRUE, !.file = r.filepath,
                                           !.data = r.dir[r.filepath],
                                           !.before = keys_dir]
    /\ UNCHANGED <<session_state, analytics_file, logging>>
    /\ UNCHANGED <<stegoVars, cryptoVars>>

NextPage ==
    \/ \E i \in 0..MaxKeys : ClickDelete(i)
    \/ \E key \in EngineKeys \cup {[j \in 1..KEY_SIZE |-> 255 - j]}, name \in KeyNames,
          created \in Timestamps :
          PageGenerate(key, name, created)

PageSpec == CryptoInit /\ [][NextPage]_vars

\* C28: in the Key Manager page no key is removed by the first click made
\* on its Delete button: the key that a click removes is the key of the
\* clicked row, and that row's button has been clicked before.
C28_DeleteNeedsTwoClicks ==
    (key_call.op = "click_delete" /\ key_call.ok) =>
        /\ key_call.file = key_call.name
        /\ delete_clicks[key_call.file] >= 2

\* a click removes the key of its own row, or a key that has the name or
\* the key bytes of that row
ClickRemovesOwnRow ==
    (key_call.op = "click_delete" /\ key_call.ok) =>
        \/ key_call.file = key_call.name
        \/ key_call.before[key_call.file].fingerprint
               = key_call.before[key_call.name].fingerprint
        \/ key_call.before[key_call.file].name = key_call.before[key_call.name].name

\* a click removes a key only at an index whose flag an earlier click set
ClickRemovesOnlyWhenArmed ==
    (key_call.op = "click_delete" /\ key_call.ok) =>
        /\ session_state # {}
        /\ \E f \in DOMAIN delete_clicks :
              delete_clicks[f] >= 2 \/ (f # key_call.file /\ delete_clicks[f] >= 1)

(***************************************************************************)
(* Analytics.  ANALYTICS_FILE holds the list json.dump wrote: for every    *)
(* entry its timestamp, its type and the text of its details object, which *)
(* load_logs parses again.  The details are the objects of str and int     *)
(* values that the pages pass.  logging is the history of the calls: the   *)
(* entry of each, the list it loaded, and whether it has written yet.      *)
(***************************************************************************)
\* most log_operation calls
MaxLogs == 3

\* an Analytics file that holds the list logs
LogFile(logs) == [kind |-> "json", logs |-> logs]

\* json.dump(logs, f, indent=2)
DumpLogs(logs) ==
    LogFile([i \in 1..Len(logs) |->
                [timestamp |-> logs[i].timestamp, type |-> logs[i].type,
                 details |-> json_dumps(logs[i].details, FALSE, <<44, 10, 32, 32>>,
                                        <<58, 32>>)]])

\* load_logs()
load_logs(file) ==
    IF file = NoFile THEN <<>>
    ELSE [i \in 1..Len(file.logs) |->
             [timestamp |-> file.logs[i].timestamp, type |-> file.logs[i].type,
              details |-> json_loads(file.logs[i].details).dict]]

\* a log_operation that writes its own entry alone
log_operationAlone(logs, operation_type, details, timestamp) ==
    DumpLogs(<<[timestamp |-> timestamp, type |-> operation_type, details |-> details]>>)

\* log_operation(operation_type, details) at the time timestamp, from the
\* list that load_logs returned to the file it writes
log_operation(logs, operation_type, details, timestamp) ==
    DumpLogs(Append(logs, [timestamp |-> timestamp, type |-> operation_type,
                           details |-> details]))

\* {}, {"cover_image": "a.png", "payload_bytes": 1} and
\* {"stego_image": "a\"b", "data_size_bytes": 0}
LogDetails ==
    {<<>>,
     <<Item(<<99, 111, 118, 101, 114, 95, 105, 109, 97, 103, 101>>,
            StrVal(<<97, 46, 112, 110, 103>>)),
       Item(<<112, 97, 121, 108, 111, 97, 100, 95, 98, 121, 116, 101, 115>>, IntVal(1))>>,
     <<Item(<<115, 116, 101, 103, 111, 95, 105, 109, 97, 103, 101>>,
            StrVal(<<97, 34, 98>>)),
       Item(<<100, 97, 116, 97, 95, 115, 105, 122, 101, 95, 98, 121, 116, 101, 115>>,
            IntVal(0))>>}

\* a whole log_operation call, nothing else running
LogOperation(operation_type, details, timestamp) ==
    /\ Len(logging) < MaxLogs
    /\ \A i \in 1..Len(logging) : logging[i].pc = "done"
    /\ analytics_file' = log_operation(load_logs(analytics_file), operation_type, details,
                                       timestamp)
    /\ logging' = Append(logging, [pc |-> "done", logs |-> load_logs(analytics_file),
                                   entry |-> [timestamp |-> timestamp,
                                              type |-> operation_type,
                                              details |-> details]])
    /\ UNCHANGED <<keys_dir, key_call, session_state, delete_clicks>>
    /\ UNCHANGED <<stegoVars, cryptoVars>>

\* the first half of a log_operation call: the entry is made and the log
\* is loaded; no more than two calls are between their halves
LogLoad(operation_type, details, timestamp) ==
    /\ Len(logging) < MaxLogs
    /\ Cardinality({i \in 1..Len(logging) : logging[i].pc = "loaded"}) < 2
    /\ logging' = Append(logging, [pc |-> "loaded", logs |-> load_logs(analytics_file),
                                   entry |-> [timestamp |-> timestamp,
                                              type |-> operation_type,
                                              details |-> details]])
    /\ UNCHANGED <<keys_dir, key_call, session_state, delete_clicks, analytics_file>>
    /\ UNCHANGED <<stegoVars, cryptoVars>>

\* the second half of call c: the list it loaded, with its entry appended,
\* is written over the file
LogWrite(c) ==
    /\ c \in 1..Len(logging)
    /\ logging[c].pc = "loaded"
    /\ analytics_file' = log_operation(logging[c].logs, logging[c].entry.type,
                                       logging[c].entry.details,
                                       logging[c].entry.timestamp)
    /\ logging' = [logging EXCEPT ![c].pc = "done"]
    /\ UNCHANGED <<keys_dir, key_call, session_state, delete_clicks>>
    /\ UNCHANGED <<stegoVars, cryptoVars>>

NextLog ==
    \E operation_type \in {"hide", "reveal"}, details \in LogDetails,
       timestamp \in Createds :
        LogOperation(operation_type, details, timestamp)

LogSpec == CryptoInit /\ [][NextLog]_vars

NextConcurrentLog ==
    \/ \E operation_type \in {"hide", "reveal"}, details \in LogDetails,
          timestamp \in Timestamps :
          LogLoad(operation_type, details, timestamp)
    \/ \E c \in 1..MaxLogs : LogWrite(c)

ConcurrentLogSpec == CryptoInit /\ [][NextConcurrentLog]_vars

\* C23: the log is append-only: after n log_operation calls made one after
\* another from an empty log, the log holds the n entries {timestamp, type,
\* details} of the calls in call order, each call having added its entry at
\* the end of the list it found.
C23_LogAppendOnly ==
    /\ load_logs(analytics_file) = [i \in 1..Len(logging) |-> logging[i].entry]
    /\ \A i \in 1..Len(logging) :
          logging[i].logs = [j \in 1..(i - 1) |-> logging[j].entry]

\* three calls have been logged, with details that hold a quoted text
C23_Witness ==
    /\ Len(logging) = 3
    /\ Len(load_logs(analytics_file)) = 3
    /\ \A i \in 1..3 : logging[i].pc = "done"
    /\ \E i \in 1..3 : logging[i].entry.details # <<>>
    /\ logging[1].entry # logging[2].entry

\* C29: when log_operation calls interleave, every entry is in the log once
\* all of them have written: none of theirs and no earlier one is lost.
C29_InterleavedLogsKeepAll ==
    (\A i \in 1..Len(logging) : logging[i].pc = "done") =>
        /\ Len(load_logs(analytics_file)) = Len(logging)
        /\ \A i \in 1..Len(logging) :
              \E j \in 1..Len(load_logs(analytics_file)) :
                  load_logs(analytics_file)[j] = logging[i].entry

\* a call that loaded the log after every earlier call had written finds
\* and keeps all their entries
UnoverlappedLogsKeepAll ==
    (/\ \A i \in 1..Len(logging) : logging[i].pc = "done"
     /\ \A i \in 1..Len(logging) : Len(logging[i].logs) = i - 1)
    => load_logs(analytics_file) = [i \in 1..Len(logging) |-> logging[i].entry]

====
